---- MODULE Spec2Model ----
(***************************************************************************)
(* State-machine model of tracing-aliyun-sls:                              *)
(*   - the batching Reporter of crates/aliyun-sls (reporter.rs),           *)
(*   - the older SlsDispatcher of src/layer.rs,                            *)
(*   - the wire encoder of crates/aliyun-sls (proto.rs),                   *)
(*   - the SlsClient and its Signer (client/mod.rs, client/signer.rs) and  *)
(*     the older SlsClient of src/client.rs.                               *)
(* Spec is the Reporter, SpecDisp the SlsDispatcher, SpecEnc the encoder,  *)
(* SpecClient the clients; SpecDeliv is the Reporter with the results of   *)
(* its delivery calls, SpecLive the Reporter under producers that never    *)
(* stop, with the fairness of its executor; SpecBuilder is the             *)
(* SlsClientBuilder, SpecVarint encode_varint alone, SpecMap the container *)
(* of Log and LogGroupMetadata, SpecLayer the Layer of                     *)
(* crates/tracing-aliyun-sls at the points of the span lifecycle;          *)
(* SpecFlush is the Reporter with a fair timer arm and fair delivery;      *)
(* SpecSlsLayer is the older SlsLayer with its send tasks and dispatcher.  *)
(***************************************************************************)
EXTENDS Integers, Sequences, FiniteSets, TLC

VARIABLES
    \* ---- Reporter / State (reporter.rs 28-63) ----
    is_reporting,       \* State.is_reporting
    is_closing,         \* State.is_closing
    consumer,           \* Reporter.consumer: TRUE while the Option holds the Receiver
    chan_closed,        \* the intake channel is closed (its only Receiver was dropped)
    queue,              \* items in the intake channel, oldest first
    calls,              \* each caller of reporting(): idle, or won (the swap)
    prod,               \* each producer: where its report() call stands
    \* ---- Reporting / LogConsumer (reporter.rs 36-58, 147-231) ----
    wpc,                \* position of the session (work_fut)
    shutdown_signal,    \* Reporting.shutdown_signal
    shutdown_rx,        \* messages in the bounded(1) shutdown channel
    vec_pool_capacity,  \* Reporting.vec_pool_capacity
    vec_pool,           \* LogConsumer.vec_pool
    log_group,          \* LogConsumer.log_group: a set of [key, logs] entries
    drain_iter,         \* entries the running drain() has still to visit
    timers,             \* [requested, fired]: drain_timer() calls and firings
    \* ---- history ----
    n_sub,              \* records handed to report() so far
    accepted,           \* items the channel accepted, in acceptance order
    puts,               \* every put_log call, in call order
    drain_no,           \* number of drains begun
    held,               \* log_group as it was when the latest drain began
    pool_at_drain,      \* Len(vec_pool) when the latest drain began
    accepted_at_drain,  \* Len(accepted) when the latest drain began
    sessions,           \* reporting() calls that returned Some
    late_none,          \* a reporting() call made after the session ended returned None
    \* ---- wire encoder (proto.rs) ----
    enc_in,             \* the log group handed to the encoder: [metadata, logs, reserved]
    enc_pc,             \* which of the encoder's functions have run
    enc_out,            \* the bytes encode_log_group wrote
    enc_len,            \* what calc_log_group_encoded_len returned
    enc_nested,         \* per encode_message call: the prefix written and the bytes that followed
    enc_legacy,         \* src/proto.rs LogGroup: [out, len] of encode and encoded_len
    \* ---- SlsDispatcher (src/layer.rs) ----
    buffer,             \* HashMap<Vec<KeyValue>, Vec<Log>>: tags -> logs held
    disp_pc,            \* where SlsDispatcher::run is
    disp_puts,          \* the LogGroups passed to put_log, in order
    disp_dropped,       \* the logs dropped as too large for any group
    disp_received,      \* how many records receiver.recv() has yielded
    disp_last,          \* the last record received: Some([tags, log])
    \* ---- delivery outcomes ----
    put_results,        \* what try_put_log returned to each put_log call of puts
    \* ---- SlsClient (client/mod.rs, client/signer.rs, src/client.rs) ----
    client_cfg,         \* [imp, enable_trace, codec]: HTTP backend, trace flag, codec feature
    http_client,        \* the HTTP_CLIENT OnceCell holds a client
    signer,             \* SlsClientInner.signer: [hmac, access_key, canonicalized_resource]
    sign_history,       \* every Signer::sign call so far: [args, signature]
    client_last,        \* the latest delivery call: its arguments, requests and result
    sign_repeated,      \* sign was called again with arguments it had signed before
    \* ---- SlsClientBuilder (client/builder.rs) ----
    builder,            \* the fields of the SlsClientBuilder that is being set up
    built,              \* what the call that consumed the builder returned
    posted,             \* the latest request of the client that was built
    \* ---- encode_varint alone (proto.rs 264-276) ----
    enc_varint,         \* the latest call: [value, out]
    \* ---- Map: Log.contents / LogGroupMetadata.log_tags (proto.rs 33-37) ----
    map_contents,       \* the pairs of the LiteMap, in the order iter() yields them
    map_order,          \* the keys it holds, in the order they were first inserted
    map_last,           \* the latest call: [fn, key, before]
    \* ---- Layer of crates/tracing-aliyun-sls (layer.rs, format.rs) ----
    layer,              \* [installed, timer, record_span]: the Layer being configured
    span,               \* the span: its state, its Timings extension, its true times
    clock,              \* Instant::now()
    layer_reports,      \* the span records handed to Reporter::report, in call order
    arcs,               \* the LogGroupMetadata values behind Arc, by allocation
    extensions,         \* the span's Arc<LogGroupMetadata> extension
    reported,           \* the Arcs of the records the Reporter still holds
    recorded,           \* the tags recorded for the span so far
    layer_last,         \* whether on_record was the latest handler, and found the Arc shared
    \* ---- SlsLayer of src/src/layer.rs and Logger of builder/log_comp.rs ----
    spawned,            \* the tasks of tokio::spawn that have not sent yet
    receiver,           \* the records in the mpsc channel to the dispatcher
    emitted             \* how many events the thread has emitted

rvars == <<is_reporting, is_closing, consumer, chan_closed, queue, calls, prod,
           wpc, shutdown_signal, shutdown_rx, vec_pool_capacity, vec_pool,
           log_group, drain_iter, timers, n_sub, accepted, puts, drain_no,
           held, pool_at_drain, accepted_at_drain, sessions, late_none>>

evars == <<enc_in, enc_pc, enc_out, enc_len, enc_nested, enc_legacy>>

dvars == <<buffer, disp_pc, disp_puts, disp_dropped, disp_received, disp_last>>

cvars == <<client_cfg, http_client, signer, sign_history, client_last,
           sign_repeated>>

bvars == <<builder, built, posted>>

mvars == <<map_contents, map_order, map_last>>

mtvars == <<arcs, extensions, reported, recorded, layer_last>>

slvars == <<spawned, receiver, emitted>>

lvars == <<layer, span, clock, layer_reports, mtvars, slvars>>

xvars == <<bvars, enc_varint, mvars, lvars>>

vars == <<rvars, evars, dvars, put_results, cvars, xvars>>

-----------------------------------------------------------------------------
(* Bounds of the model.                                                    *)
MaxReports == 3
MaxTimerFirings == 2
MaxEncLogs == 2
MaxDispReceived == 3
MaxDelivReports == 2
MaxLiveQueue == 2
MaxLiveHeld == 1

(* reporter.rs 17 *)
VEC_POOL_DEFAULT_CAPACITY == 1024

(* The capacities with_vec_pool_capacity is called with. *)
PoolCapacities == {0, 1}

(* Option<T>: None is the empty sequence, Some(v) the one-element one.     *)
None == <<>>
Some(v) == <<v>>

(* A string is a byte repeated n times: its length and its bytes are both  *)
(* determined, and a multi-megabyte value stays a small record.            *)
Str(n, ch) == [n |-> n, ch |-> ch]

-----------------------------------------------------------------------------
(* proto.rs: Log and LogGroupMetadata.                                     *)

\* Log::new(timestamp, subsec_nanosecond): no contents.
LogNew(timestamp, subsec_nanosecond) ==
    [timestamp |-> timestamp, subsec_nanosecond |-> subsec_nanosecond,
     contents |-> <<>>]

\* LogGroupMetadata { topic, source, log_tags }.
LogGroupMetadata(topic, source, log_tags) ==
    [topic |-> topic, source |-> source, log_tags |-> log_tags]

\* The metadata values the producers use; they differ in the tags only.
MetaA == LogGroupMetadata(Some(Str(1, 116)), None, <<>>)
MetaB == LogGroupMetadata(Some(Str(1, 116)), None, <<<<Str(1, 107), Str(1, 118)>>>>)

\* Arc<LogGroupMetadata>: an allocation (ptr) holding a value. a1 and a2 are two
\* allocations of equal values.
Arcs == { [ptr |-> "a1", val |-> MetaA], [ptr |-> "a2", val |-> MetaA],
          [ptr |-> "b1", val |-> MetaB] }

\* The mutant of KeyEq: keys compared by allocation.
KeyEqByPtr(a, b) == a.ptr = b.ptr

\* Eq of the HashMap key Arc<LogGroupMetadata>: Arc compares the values it
\* points to, LogGroupMetadata derives PartialEq/Eq over topic, source, log_tags.
KeyEq(a, b) ==
    /\ a.val.topic = b.val.topic
    /\ a.val.source = b.val.source
    /\ a.val.log_tags = b.val.log_tags

-----------------------------------------------------------------------------
(* reporter.rs                                                             *)

Callers == {"c1", "c2"}
Producers == {"p1", "p2"}

\* States of the session in which start() is being polled.
Started == {"select", "drain", "final", "store", "stored", "done"}

InitReporter ==
    /\ is_reporting = FALSE
    /\ is_closing = FALSE
    /\ consumer = TRUE
    /\ chan_closed = FALSE
    /\ queue = <<>>
    /\ calls = [c \in Callers |-> "idle"]
    /\ prod = [p \in Producers |-> "idle"]
    /\ wpc = "none"
    /\ shutdown_signal = "pending"
    /\ shutdown_rx = 0
    /\ vec_pool_capacity = 0
    /\ vec_pool = <<>>
    /\ log_group = {}
    /\ drain_iter = {}
    /\ timers = [requested |-> 0, fired |-> 0]
    /\ n_sub = 0
    /\ accepted = <<>>
    /\ puts = <<>>
    /\ drain_no = 0
    /\ held = {}
    /\ pool_at_drain = 0
    /\ accepted_at_drain = 0
    /\ sessions = 0
    /\ late_none = FALSE

\* State::set_reporting: swap(true), the previous value is returned.
set_reporting(flag) == [old |-> flag, new |-> TRUE]

\* Reporter::reporting, lines 81-83: the swap. A call that finds the flag set
\* returns None at once.
reporting_swap(c) ==
    /\ calls[c] = "idle"
    /\ is_reporting' = set_reporting(is_reporting).new
    /\ IF set_reporting(is_reporting).old
         THEN /\ late_none' = (late_none \/ wpc = "done")
              /\ UNCHANGED calls
         ELSE /\ calls' = [calls EXCEPT ![c] = "won"]
              /\ UNCHANGED late_none
    /\ UNCHANGED <<is_closing, consumer, chan_closed, queue, prod, wpc,
                   shutdown_signal, shutdown_rx, vec_pool_capacity, vec_pool,
                   log_group, drain_iter, timers, n_sub, accepted, puts,
                   drain_no, held, pool_at_drain, accepted_at_drain, sessions>>

\* Reporter::reporting, lines 85-98: take() the Receiver out of the shared
\* Option; Some(Reporting) with the default capacities, or None when it is gone.
reporting_take(c) ==
    /\ calls[c] = "won"
    /\ IF consumer
         THEN /\ consumer' = FALSE
              /\ calls' = [calls EXCEPT ![c] = "idle"]
              /\ UNCHANGED late_none
              /\ sessions' = sessions + 1
              /\ wpc' = "created"
              /\ vec_pool_capacity' = VEC_POOL_DEFAULT_CAPACITY
              /\ shutdown_signal' = "pending"
         ELSE /\ calls' = [calls EXCEPT ![c] = "idle"]
              /\ late_none' = (late_none \/ wpc = "done")
              /\ UNCHANGED <<consumer, sessions, wpc, vec_pool_capacity,
                             shutdown_signal>>
    /\ UNCHANGED <<is_reporting, is_closing, chan_closed, queue, prod,
                   shutdown_rx, vec_pool, log_group, drain_iter, timers, n_sub,
                   accepted, puts, drain_no, held, pool_at_drain, accepted_at_drain>>

\* Reporter::report, line 103: the closing flag is loaded; with the flag set
\* the call returns without sending.
report_check(p) ==
    /\ prod[p] = "idle"
    /\ n_sub + Cardinality({q \in Producers : prod[q] = "send"}) < MaxReports
    /\ prod' = [prod EXCEPT ![p] = IF is_closing THEN "idle" ELSE "send"]
    /\ UNCHANGED <<is_reporting, is_closing, consumer, chan_closed, queue,
                   calls, wpc, shutdown_signal, shutdown_rx, vec_pool_capacity,
                   vec_pool, log_group, drain_iter, timers, n_sub, accepted,
                   puts, drain_no, held, pool_at_drain, accepted_at_drain, late_none, sessions>>

\* Reporter::report, lines 104-106: send_blocking on the unbounded channel. It
\* never waits; on a closed channel it fails, the error is logged and dropped.
\* The mutant of report_send: the channel is bounded(1) and a send waits while
\* it is full.
report_send_bounded(p) ==
    /\ prod[p] = "send"
    /\ chan_closed \/ Len(queue) < 1
    /\ prod' = [prod EXCEPT ![p] = "idle"]
    /\ n_sub' = n_sub + 1
    /\ IF chan_closed
         THEN UNCHANGED <<queue, accepted>>
         ELSE \E a \in Arcs :
                LET item == [meta |-> a, log |-> LogNew(n_sub + 1, None)]
                IN  /\ queue' = Append(queue, item)
                    /\ accepted' = Append(accepted, item)
    /\ UNCHANGED <<is_reporting, is_closing, consumer, chan_closed, calls, wpc,
                   shutdown_signal, shutdown_rx, vec_pool_capacity, vec_pool,
                   log_group, drain_iter, timers, puts, drain_no, held,
                   pool_at_drain, accepted_at_drain, sessions, late_none>>

\* The record of the call is the n_sub-th one handed to send_blocking; its
\* timestamp tells the records apart.
report_send(p) ==
    /\ prod[p] = "send"
    /\ prod' = [prod EXCEPT ![p] = "idle"]
    /\ n_sub' = n_sub + 1
    /\ IF chan_closed
         THEN UNCHANGED <<queue, accepted>>
         ELSE \E a \in Arcs :
                LET item == [meta |-> a, log |-> LogNew(n_sub + 1, None)]
                IN  /\ queue' = Append(queue, item)
                    /\ accepted' = Append(accepted, item)
    /\ UNCHANGED <<is_reporting, is_closing, consumer, chan_closed, calls, wpc,
                   shutdown_signal, shutdown_rx, vec_pool_capacity, vec_pool,
                   log_group, drain_iter, timers, puts, drain_no, held,
                   pool_at_drain, accepted_at_drain, late_none, sessions>>

\* Reporting::with_graceful_shutdown.
with_graceful_shutdown ==
    /\ wpc = "created"
    /\ shutdown_signal = "pending"
    /\ shutdown_signal' = "armed"
    /\ UNCHANGED <<is_reporting, is_closing, consumer, chan_closed, queue,
                   calls, prod, wpc, shutdown_rx, vec_pool_capacity, vec_pool,
                   log_group, drain_iter, timers, n_sub, accepted, puts,
                   drain_no, held, pool_at_drain, accepted_at_drain, late_none, sessions>>

\* Reporting::with_vec_pool_capacity.
with_vec_pool_capacity(capacity) ==
    /\ wpc = "created"
    /\ vec_pool_capacity # capacity
    /\ vec_pool_capacity' = capacity
    /\ UNCHANGED <<is_reporting, is_closing, consumer, chan_closed, queue,
                   calls, prod, wpc, shutdown_signal, shutdown_rx, vec_pool,
                   log_group, drain_iter, timers, n_sub, accepted, puts,
                   drain_no, held, pool_at_drain, accepted_at_drain, late_none, sessions>>

\* Reporting::start, lines 149-179: the pool is filled with vec_pool_capacity
\* empty vectors, the map is empty, the first timer future is requested.
start ==
    /\ wpc = "created"
    /\ wpc' = "select"
    /\ vec_pool' = [i \in 1..vec_pool_capacity |-> <<>>]
    /\ log_group' = {}
    /\ timers' = [timers EXCEPT !.requested = @ + 1]
    /\ UNCHANGED <<is_reporting, is_closing, consumer, chan_closed, queue,
                   calls, prod, shutdown_signal, shutdown_rx,
                   vec_pool_capacity, drain_iter, n_sub, accepted, puts,
                   drain_no, held, pool_at_drain, accepted_at_drain, late_none, sessions>>

\* shutdown_fut, lines 196-199: the signal completes and one message is sent
\* on the shutdown channel.
shutdown_fut ==
    /\ wpc \in Started
    /\ shutdown_signal = "armed"
    /\ shutdown_signal' = "fired"
    /\ shutdown_rx' = 1
    /\ UNCHANGED <<is_reporting, is_closing, consumer, chan_closed, queue,
                   calls, prod, wpc, vec_pool_capacity, vec_pool, log_group,
                   drain_iter, timers, n_sub, accepted, puts, drain_no, held,
                   pool_at_drain, accepted_at_drain, late_none, sessions>>

\* The entries of a map whose key equals meta.
Entry(map, meta) == { e \in map : KeyEq(e.key, meta) }

\* LogConsumer::consume, lines 206-219, as the select arm of line 182: one item
\* is received; it is pushed onto the vector of its key, a new entry taking its
\* vector from the pool (or a fresh one when the pool is empty).
consume ==
    /\ wpc = "select"
    /\ queue # <<>>
    /\ queue' = Tail(queue)
    /\ LET meta == Head(queue).meta
           log == Head(queue).log
       IN  IF Entry(log_group, meta) # {}
             THEN /\ log_group' =
                        { IF KeyEq(e.key, meta)
                            THEN [e EXCEPT !.logs = Append(@, log)]
                            ELSE e : e \in log_group }
                  /\ UNCHANGED vec_pool
             ELSE IF vec_pool # <<>>
               THEN /\ log_group' = log_group \cup
                          { [key |-> meta,
                             logs |-> Append(vec_pool[Len(vec_pool)], log)] }
                    /\ vec_pool' = SubSeq(vec_pool, 1, Len(vec_pool) - 1)
               ELSE /\ log_group' = log_group \cup
                          { [key |-> meta, logs |-> <<log>>] }
                    /\ UNCHANGED vec_pool
    /\ UNCHANGED <<is_reporting, is_closing, consumer, chan_closed, calls,
                   prod, wpc, shutdown_signal, shutdown_rx, vec_pool_capacity,
                   drain_iter, timers, n_sub, accepted, puts, drain_no, held,
                   pool_at_drain, accepted_at_drain, late_none, sessions>>

\* The mutant of drain_begin: the map is walked with iter(), not drained.
drain_begin_iter(next_pc) ==
    /\ wpc' = next_pc
    /\ drain_iter' = log_group
    /\ log_group' = log_group
    /\ held' = log_group
    /\ pool_at_drain' = Len(vec_pool)
    /\ accepted_at_drain' = Len(accepted)
    /\ drain_no' = drain_no + 1

\* LogConsumer::drain, line 222: log_group.drain() empties the map into the
\* iterator the loop walks.
drain_begin(next_pc) ==
    /\ wpc' = next_pc
    /\ drain_iter' = log_group
    /\ log_group' = {}
    /\ held' = log_group
    /\ pool_at_drain' = Len(vec_pool)
    /\ accepted_at_drain' = Len(accepted)
    /\ drain_no' = drain_no + 1

\* The mutant of timer_fire: the next timer future is requested as soon as the
\* timer fires, before the drain.
timer_fire_rearm ==
    /\ wpc = "select"
    /\ timers.fired < MaxTimerFirings
    /\ timers' = [requested |-> timers.requested + 1, fired |-> timers.fired + 1]
    /\ drain_begin("drain")
    /\ UNCHANGED <<is_reporting, is_closing, consumer, chan_closed, queue,
                   calls, prod, shutdown_signal, shutdown_rx,
                   vec_pool_capacity, vec_pool, n_sub, accepted, puts,
                   sessions, late_none>>

\* The mutant of timer_fire: the recv of the pending consume future had taken
\* the oldest item when the timer arm won, and the item goes with the future.
timer_fire_recv_taken ==
    /\ wpc = "select"
    /\ timers.fired < MaxTimerFirings
    /\ timers' = [timers EXCEPT !.fired = @ + 1]
    /\ drain_begin("drain")
    /\ queue' = IF queue # <<>> THEN Tail(queue) ELSE queue
    /\ UNCHANGED <<is_reporting, is_closing, consumer, chan_closed,
                   calls, prod, shutdown_signal, shutdown_rx,
                   vec_pool_capacity, vec_pool, n_sub, accepted, puts,
                   sessions, late_none>>

\* The select arm of line 183: the timer future completes and drain() begins.
timer_fire ==
    /\ wpc = "select"
    /\ timers.fired < MaxTimerFirings
    /\ timers' = [timers EXCEPT !.fired = @ + 1]
    /\ drain_begin("drain")
    /\ UNCHANGED <<is_reporting, is_closing, consumer, chan_closed, queue,
                   calls, prod, shutdown_signal, shutdown_rx,
                   vec_pool_capacity, vec_pool, n_sub, accepted, puts,
                   sessions, late_none>>

\* The mutant of shutdown_recv: a select that polls its arms in order takes the
\* shutdown arm only when the consume arm is not ready.
shutdown_recv_biased ==
    /\ wpc = "select"
    /\ queue = <<>>
    /\ shutdown_rx = 1
    /\ shutdown_rx' = 0
    /\ drain_begin("final")
    /\ UNCHANGED <<is_reporting, is_closing, consumer, chan_closed, queue,
                   calls, prod, shutdown_signal, vec_pool_capacity, vec_pool,
                   timers, n_sub, accepted, puts, sessions, late_none>>

\* The select arm of lines 187-189 and line 192: the shutdown message is
\* received, the loop is left and the final drain() begins.
shutdown_recv ==
    /\ wpc = "select"
    /\ shutdown_rx = 1
    /\ shutdown_rx' = 0
    /\ drain_begin("final")
    /\ UNCHANGED <<is_reporting, is_closing, consumer, chan_closed, queue,
                   calls, prod, shutdown_signal, vec_pool_capacity, vec_pool,
                   timers, n_sub, accepted, puts, sessions, late_none>>

\* The mutant of clear: the vector keeps its records.
clear_keep(v) == v

\* The mutant of clear: the vector keeps its latest record.
clear_keep_last(v) == IF v = <<>> THEN v ELSE <<v[Len(v)]>>

\* Vec::clear.
clear(v) == <<>>

\* The mutant of drain_put: the put_log call of an entry is made a second time.
drain_put_retry ==
    /\ wpc \in {"drain", "final"}
    /\ \E e \in drain_iter :
         /\ drain_iter' = drain_iter \ {e}
         /\ puts' = puts \o << [meta |-> e.key.val, logs |-> e.logs, drain |-> drain_no],
                               [meta |-> e.key.val, logs |-> e.logs, drain |-> drain_no] >>
         /\ vec_pool' = Append(vec_pool, clear(e.logs))
    /\ UNCHANGED <<is_reporting, is_closing, consumer, chan_closed, queue,
                   calls, prod, wpc, shutdown_signal, shutdown_rx,
                   vec_pool_capacity, log_group, timers, n_sub, accepted,
                   drain_no, held, pool_at_drain, accepted_at_drain, late_none, sessions>>

\* LogConsumer::drain, lines 222-227, one turn of the loop: put_log for one
\* entry (the HashMap's order is unspecified); its result is discarded; the vector
\* is cleared and pushed onto the pool.
drain_put ==
    /\ wpc \in {"drain", "final"}
    /\ \E e \in drain_iter :
         /\ drain_iter' = drain_iter \ {e}
         /\ puts' = Append(puts, [meta |-> e.key.val, logs |-> e.logs,
                                  drain |-> drain_no])
         /\ vec_pool' = Append(vec_pool, clear(e.logs))
    /\ UNCHANGED <<is_reporting, is_closing, consumer, chan_closed, queue,
                   calls, prod, wpc, shutdown_signal, shutdown_rx,
                   vec_pool_capacity, log_group, timers, n_sub, accepted,
                   drain_no, held, pool_at_drain, accepted_at_drain, late_none, sessions>>

\* The mutant of truncate: nothing is cut off.
truncate_keep(v, len) == v

\* Vec::truncate(len).
truncate(v, len) == IF Len(v) > len THEN SubSeq(v, 1, len) ELSE v

\* LogConsumer::drain, lines 228-229, and what follows the drain: after a timer
\* drain the next timer future is requested (line 185); after the final drain
\* the closing flag is about to be stored.
drain_end ==
    /\ wpc \in {"drain", "final"}
    /\ drain_iter = {}
    /\ vec_pool' = truncate(vec_pool, vec_pool_capacity)
    /\ IF wpc = "drain"
         THEN /\ wpc' = "select"
              /\ timers' = [timers EXCEPT !.requested = @ + 1]
         ELSE /\ wpc' = "store"
              /\ UNCHANGED timers
    /\ UNCHANGED <<is_reporting, is_closing, consumer, chan_closed, queue,
                   calls, prod, shutdown_signal, shutdown_rx,
                   vec_pool_capacity, log_group, drain_iter, n_sub, accepted,
                   puts, drain_no, held, pool_at_drain, accepted_at_drain, late_none, sessions>>

\* Line 193: is_closing.store(true).
store_closing ==
    /\ wpc = "store"
    /\ is_closing' = TRUE
    /\ wpc' = "stored"
    /\ UNCHANGED <<is_reporting, consumer, chan_closed, queue, calls, prod,
                   shutdown_signal, shutdown_rx, vec_pool_capacity, vec_pool,
                   log_group, drain_iter, timers, n_sub, accepted, puts,
                   drain_no, held, pool_at_drain, accepted_at_drain, late_none, sessions>>

\* The mutant of work_fut_end: the ended session hands the Receiver back and
\* resets the reporting flag.
work_fut_end_reset ==
    /\ wpc = "stored"
    /\ wpc' = "done"
    /\ is_reporting' = FALSE
    /\ consumer' = TRUE
    /\ UNCHANGED <<is_closing, chan_closed, queue, calls, prod,
                   shutdown_signal, shutdown_rx, vec_pool_capacity, vec_pool,
                   log_group, drain_iter, timers, n_sub, accepted, puts,
                   drain_no, held, pool_at_drain, accepted_at_drain, sessions,
                   late_none>>

\* Line 194: work_fut ends; the LogConsumer it owns is dropped, and with it the
\* only Receiver, which closes the channel.
work_fut_end ==
    /\ wpc = "stored"
    /\ wpc' = "done"
    /\ chan_closed' = TRUE
    /\ UNCHANGED <<is_reporting, is_closing, consumer, queue, calls, prod,
                   shutdown_signal, shutdown_rx, vec_pool_capacity, vec_pool,
                   log_group, drain_iter, timers, n_sub, accepted, puts,
                   drain_no, held, pool_at_drain, accepted_at_drain, late_none, sessions>>

-----------------------------------------------------------------------------
(* Properties of the Reporter (Spec).                                      *)

\* The metadata values in use.
MetaVals == { a.val : a \in Arcs }

\* The elements of a sequence.
Range(s) == { s[i] : i \in 1..Len(s) }

\* The put_log calls of drain d, as indices of puts.
PutsOf(d) == { i \in 1..Len(puts) : puts[i].drain = d }

\* The put_log calls that carried exactly the batch e.
PutsCarrying(e) ==
    { i \in 1..Len(puts) : puts[i].meta = e.key.val /\ puts[i].logs = e.logs }

\* The metadata value record l was accepted with.
AcceptedVal(l) ==
    (CHOOSE it \in Range(accepted) : it.log = l).meta.val

\* The allocation record l was accepted with.
AcceptedPtr(l) ==
    (CHOOSE it \in Range(accepted) : it.log = l).meta.ptr

\* The records accepted with value k before the latest drain began and not
\* dispatched by an earlier drain, in acceptance order.
PendingAtDrain(k) ==
    LET earlier == UNION { Range(puts[i].logs) :
                             i \in { j \in 1..Len(puts) : puts[j].drain < drain_no } }
        sel == SelectSeq(SubSeq(accepted, 1, accepted_at_drain),
                         LAMBDA it : it.meta.val = k /\ it.log \notin earlier)
    IN  [j \in 1..Len(sel) |-> sel[j].log]

\* C1 (as claimed): when a drain has ended, the records submitted with one
\* metadata key before its trigger fired were all dispatched by that drain, in one
\* put_log call for the key that carries them in submission order.
C1_NextDrainCarriesAllSubmitted ==
    (drain_no >= 1 /\ wpc \notin {"drain", "final"}) =>
        \A k \in MetaVals :
            PendingAtDrain(k) # <<>> =>
                /\ \E i \in PutsOf(drain_no) :
                       puts[i].meta = k /\ puts[i].logs = PendingAtDrain(k)
                /\ Cardinality({ i \in PutsOf(drain_no) : puts[i].meta = k }) = 1

\* C2: from the moment the loop observes the shutdown message, the grouping map
\* is empty; every batch it held at that moment is either still to be visited by
\* the final drain or was passed to put_log exactly once, by the final drain; when
\* the final drain has ended every one of them was passed exactly once.
C2_FinalDrainDispatchesHeld ==
    wpc \in {"final", "store", "stored", "done"} =>
        /\ log_group = {}
        /\ drain_iter \subseteq held
        /\ wpc # "final" => drain_iter = {}
        /\ \A e \in held \ drain_iter :
               /\ Cardinality(PutsCarrying(e)) = 1
               /\ PutsCarrying(e) \subseteq PutsOf(drain_no)
        /\ \A e \in drain_iter : PutsCarrying(e) = {}
        /\ Cardinality(PutsOf(drain_no)) = Cardinality(held \ drain_iter)

\* C2 witness: the session has ended after a final drain of two held batches.
C2_Witness ==
    /\ wpc = "done"
    /\ Cardinality(held) = 2
    /\ Cardinality(PutsOf(drain_no)) = 2

\* C3: during the drain begun by a timer firing the grouping map is empty; every
\* batch held at the firing is still to be visited or was passed to put_log exactly
\* once, by this drain; each visited batch put one empty vector onto the pool.
C3_TimerDrainDispatchesHeld ==
    wpc = "drain" =>
        /\ log_group = {}
        /\ drain_iter \subseteq held
        /\ \A e \in held \ drain_iter :
               /\ Cardinality(PutsCarrying(e)) = 1
               /\ PutsCarrying(e) \subseteq PutsOf(drain_no)
        /\ \A e \in drain_iter : PutsCarrying(e) = {}
        /\ Cardinality(PutsOf(drain_no)) = Cardinality(held \ drain_iter)
        /\ Len(vec_pool) = pool_at_drain + Cardinality(held \ drain_iter)
        /\ \A i \in (pool_at_drain + 1)..Len(vec_pool) : vec_pool[i] = <<>>

\* C3 witness: a timer drain of two batches has visited both.
C3_Witness ==
    /\ wpc = "drain"
    /\ drain_iter = {}
    /\ Cardinality(held) = 2
    /\ Len(vec_pool) = pool_at_drain + 2

\* C6: over all calls of reporting(), at most one returns a session, and at most
\* one call is ever past the flag check.
C6_AtMostOneSession ==
    /\ sessions + Cardinality({ c \in Callers : calls[c] = "won" }) <= 1
    /\ late_none => sessions = 1

\* C6 witness: one session was returned and has ended, and a call made after it
\* ended returned None.
C6_Witness ==
    /\ sessions = 1
    /\ wpc = "done"
    /\ late_none

\* C7: the batches of the grouping map have pairwise different metadata values;
\* a batch holds exactly the consumed records accepted with its value, whatever
\* allocation they came with; every put_log call carries only records accepted
\* with the value of the call, and one drain calls put_log at most once per value.
C7_GroupedByStructuralEquality ==
    /\ \A e1, e2 \in log_group \cup drain_iter :
           e1.key.val = e2.key.val => e1 = e2
    /\ \A e1, e2 \in log_group :
           \A l1 \in Range(e1.logs), l2 \in Range(e2.logs) :
               (AcceptedVal(l1) = AcceptedVal(l2)) <=> (e1 = e2)
    /\ \A e \in log_group : \A l \in Range(e.logs) : AcceptedVal(l) = e.key.val
    /\ \A i \in 1..Len(puts) :
           \A l \in Range(puts[i].logs) : AcceptedVal(l) = puts[i].meta
    /\ \A i, j \in 1..Len(puts) :
           (puts[i].drain = puts[j].drain /\ puts[i].meta = puts[j].meta) => i = j

\* C7 witness: one drain made two put_log calls, for different values, and one of
\* them carries two records that came with different allocations of equal values.
C7_Witness ==
    \E i, j \in 1..Len(puts) :
        /\ puts[i].drain = puts[j].drain
        /\ puts[i].meta # puts[j].meta
        /\ \E l1, l2 \in Range(puts[i].logs) : AcceptedPtr(l1) # AcceptedPtr(l2)

\* C9: a report() call that is past the flag check can always complete its send,
\* whatever the backlog and wherever the session stands; and a send made while the
\* closing flag is not set puts its record into the channel.
C9_ReportNeverWaits ==
    /\ [](\A p \in Producers : prod[p] = "send" => ENABLED report_send(p))
    /\ [][\A p \in Producers :
            (prod[p] = "send" /\ prod'[p] = "idle" /\ ~is_closing) =>
                /\ Len(queue') = Len(queue) + 1
                /\ Len(accepted') = Len(accepted) + 1]_vars

\* C9 witness: a record was accepted while a drain was running, onto a backlog.
C9_Witness ==
    /\ wpc = "drain"
    /\ Len(accepted) > accepted_at_drain
    /\ Len(queue) >= 2

\* C10 (as claimed): once the closing flag is set it stays set and the channel
\* accepts no further record.
C10_NoIntakeOnceClosing ==
    [][is_closing => (is_closing' /\ accepted' = accepted)]_vars

\* The positions of work_fut from the moment the shutdown message is observed.
ShutdownObserved == {"final", "store", "stored", "done"}

\* C11 (as claimed): from the moment the loop observes the shutdown message,
\* the final drain included, the closing flag is set, so that report() refuses.
C11_ClosingFromShutdownObserved ==
    wpc \in ShutdownObserved => is_closing

\* C12 (as claimed): when the batching task has exited, every record that was
\* accepted into the channel before the shutdown message was observed has been
\* consumed and is carried by exactly one put_log call.
C12_AcceptedBeforeShutdownDelivered ==
    wpc = "done" =>
        \A n \in 1..accepted_at_drain :
            Cardinality({ i \in 1..Len(puts) :
                            accepted[n].log \in Range(puts[i].logs) }) = 1

\* C19: a timer future is requested only by the step that starts the session
\* (the first one) and by the step that ends a timer drain (one more, when every
\* request so far has fired and every entry of that drain has been passed on);
\* so at most one request is outstanding after any step, none while a timer
\* drain runs, and a step that consumes a record leaves the timer as it is.
C19_TimerRequestedOncePerFiring ==
    [][ /\ timers'.requested - timers'.fired \in {0, 1}
        /\ wpc' = "drain" => timers'.requested = timers'.fired
        /\ wpc' = "select" => timers'.requested = timers'.fired + 1
        /\ timers'.requested # timers.requested =>
              /\ timers'.requested = timers.requested + 1
              /\ timers'.fired = timers.fired
              /\ timers.requested = timers.fired
              /\ wpc' = "select"
              /\ \/ wpc = "created" /\ timers.requested = 0
                 \/ wpc = "drain" /\ drain_iter = {}
        /\ (wpc = "select" /\ queue' # queue /\ Len(queue') < Len(queue))
              => timers' = timers ]_vars

\* C19 witness: the timer has fired, its drain is over, the next timer has been
\* requested and a record has been consumed since.
C19_Witness ==
    /\ wpc = "select"
    /\ timers.fired >= 1
    /\ timers.requested = timers.fired + 1
    /\ log_group # {}

\* The points of a started session at which no drain is running.
NoDrainRunning == {"select", "store", "stored", "done"}

\* C20: whenever no drain is running in a started session the pool holds at most
\* vec_pool_capacity vectors, and exactly that many right after start.
C20_PoolWithinCapacity ==
    /\ wpc \in NoDrainRunning => Len(vec_pool) <= vec_pool_capacity
    /\ (wpc = "select" /\ drain_no = 0 /\ log_group = {})
          => Len(vec_pool) = vec_pool_capacity

\* C20 witness: the latest drain pushed the pool beyond its capacity and is over.
C20_Witness ==
    /\ wpc \in {"select", "store"}
    /\ drain_no >= 1
    /\ pool_at_drain + Cardinality(PutsOf(drain_no)) > vec_pool_capacity
    /\ Len(vec_pool) <= vec_pool_capacity

\* C31: every vector in the pool is empty; the records of a batch in the grouping
\* map were in no put_log call, and no record is in two put_log calls or twice
\* in one.
C31_PooledVectorsEmpty ==
    /\ \A i \in 1..Len(vec_pool) : vec_pool[i] = <<>>
    /\ \A e \in log_group : \A k \in 1..Len(puts) :
           Range(e.logs) \cap Range(puts[k].logs) = {}
    /\ \A k1, k2 \in 1..Len(puts) :
           k1 # k2 => Range(puts[k1].logs) \cap Range(puts[k2].logs) = {}
    /\ \A k \in 1..Len(puts) :
           Cardinality(Range(puts[k].logs)) = Len(puts[k].logs)

\* C31 witness: the pool was empty when the latest drain began, so every vector
\* it held afterwards came back from a batch; a later batch took one of them and
\* was passed to put_log by the next drain.
C31_Witness ==
    /\ drain_no >= 2
    /\ vec_pool_capacity >= 1
    /\ pool_at_drain = 0
    /\ held # {}
    /\ PutsOf(drain_no - 1) # {}
    /\ PutsOf(drain_no) # {}

-----------------------------------------------------------------------------
(* proto.rs: the wire encoder. Bytes are numbers 0..255, an output is the  *)
(* sequence of bytes written.                                              *)

\* The bytes of a string.
as_bytes(s) == [i \in 1..s.n |-> s.ch]

\* The mutant of encode_varint: the continuation bit is never set.
RECURSIVE encode_varint_no_flag(_)
encode_varint_no_flag(value) ==
    IF value < 128
      THEN <<value>>
      ELSE <<value % 128>> \o encode_varint_no_flag(value \div 128)

\* encode_varint, lines 264-276: seven bits a byte, low group first, the high
\* bit set on every byte but the last.
RECURSIVE encode_varint(_)
encode_varint(value) ==
    IF value < 128
      THEN <<value>>
      ELSE <<(value % 128) + 128>> \o encode_varint(value \div 128)

\* WireType, lines 255-262.
WireType == [Varint |-> 0, SixtyFourBit |-> 1, LengthDelimited |-> 2,
             StartGroup |-> 3, EndGroup |-> 4, ThirtyTwoBit |-> 5]

\* tag << 3 on a u32; the field tags of these messages are 1..6, far from the
\* width where the shift loses bits.
shl3(tag) == tag * 8

\* encode_key, lines 278-282: the low three bits of tag << 3 are zero, so the
\* bitwise or with the wire type adds it.
encode_key(tag, wire_type) == encode_varint(shl3(tag) + wire_type)

\* encode_varint_field, lines 284-288.
encode_varint_field(tag, value) ==
    encode_key(tag, WireType.Varint) \o encode_varint(value)

\* u32::to_le_bytes.
to_le_bytes(value) ==
    << value % 256, (value \div 256) % 256, (value \div 65536) % 256,
       (value \div 16777216) % 256 >>

\* encode_fixed32, lines 290-295.
encode_fixed32(tag, value) ==
    encode_key(tag, WireType.ThirtyTwoBit) \o to_le_bytes(value)

\* encode_message, lines 297-302: the key, the message's encoded_len as a
\* varint, then the message's own bytes.
encode_message(tag, msg_encoded_len, msg_bytes) ==
    encode_key(tag, WireType.LengthDelimited)
        \o encode_varint(msg_encoded_len) \o msg_bytes

\* encode_str, lines 304-311.
encode_str(tag, value) ==
    encode_key(tag, WireType.LengthDelimited)
        \o encode_varint(value.n) \o as_bytes(value)

\* u64::leading_zeros.
RECURSIVE leading_zeros_from(_, _)
leading_zeros_from(value, bits) ==
    IF value = 0 THEN bits ELSE leading_zeros_from(value \div 2, bits - 1)
leading_zeros(value) == leading_zeros_from(value, 64)

\* value | 1.
or1(value) == IF value % 2 = 0 THEN value + 1 ELSE value

\* The mutant of encoded_len_varint: eight bits a byte.
encoded_len_varint_8(value) ==
    (((63 - leading_zeros(or1(value))) * 8 + 72) \div 64)

\* encoded_len_varint, lines 313-318. leading_zeros of a nonzero u64 is 0..63,
\* where x ^ 63 is 63 - x.
encoded_len_varint(value) ==
    (((63 - leading_zeros(or1(value))) * 9 + 73) \div 64)

\* key_len, lines 320-323.
key_len(tag) == encoded_len_varint(shl3(tag))

\* encoded_str_len, lines 325-329.
encoded_str_len(tag, value) ==
    key_len(tag) + encoded_len_varint(value.n) + value.n

\* The sum of a sequence of numbers.
RECURSIVE sum(_)
sum(lens) == IF lens = <<>> THEN 0 ELSE Head(lens) + sum(Tail(lens))

\* encoded_len_repeated, lines 331-342, of messages whose encoded_len are lens.
encoded_len_repeated(tag, lens) ==
    key_len(tag) * Len(lens)
        + sum([i \in 1..Len(lens) |-> lens[i] + encoded_len_varint(lens[i])])

\* encoded_varint_field_len, lines 344-347.
encoded_varint_field_len(tag, value) == key_len(tag) + encoded_len_varint(value)

\* encoded_fixed32_len, lines 349-352.
encoded_fixed32_len(tag) == key_len(tag) + 4

\* The concatenation of a sequence of byte sequences.
RECURSIVE concat(_)
concat(parts) == IF parts = <<>> THEN <<>> ELSE Head(parts) \o concat(Tail(parts))

\* impl Message for (S, S), lines 213-224: a key/value pair <<key, value>>.
pair_encode_into_vec(kv) == encode_str(1, kv[1]) \o encode_str(2, kv[2])
pair_encoded_len(kv) == encoded_str_len(1, kv[1]) + encoded_str_len(2, kv[2])

\* impl Message for Log, lines 226-248.
Log_encode_into_vec(log) ==
    encode_varint_field(1, log.timestamp)
        \o concat([i \in 1..Len(log.contents) |->
                     encode_message(2, pair_encoded_len(log.contents[i]),
                                    pair_encode_into_vec(log.contents[i]))])
        \o (IF log.subsec_nanosecond # None
              THEN encode_fixed32(4, log.subsec_nanosecond[1])
              ELSE <<>>)

Log_encoded_len(log) ==
    encoded_varint_field_len(1, log.timestamp)
        + encoded_len_repeated(2, [i \in 1..Len(log.contents) |->
                                     pair_encoded_len(log.contents[i])])
        + (IF log.subsec_nanosecond # None THEN encoded_fixed32_len(4) ELSE 0)

\* The mutant of encode_log_group: topic and source are written before the logs.
encode_log_group_meta_first(metadata, logs) ==
    (IF metadata.topic # None
       THEN encode_str(3, metadata.topic[1]) ELSE <<>>)
        \o (IF metadata.source # None
              THEN encode_str(4, metadata.source[1]) ELSE <<>>)
        \o concat([i \in 1..Len(logs) |->
                     encode_message(1, Log_encoded_len(logs[i]),
                                    Log_encode_into_vec(logs[i]))])
        \o concat([i \in 1..Len(metadata.log_tags) |->
                     encode_message(6, pair_encoded_len(metadata.log_tags[i]),
                                    pair_encode_into_vec(metadata.log_tags[i]))])

\* encode_log_group, lines 161-180.
encode_log_group(metadata, logs) ==
    concat([i \in 1..Len(logs) |->
              encode_message(1, Log_encoded_len(logs[i]),
                             Log_encode_into_vec(logs[i]))])
        \o (IF metadata.topic # None
              THEN encode_str(3, metadata.topic[1]) ELSE <<>>)
        \o (IF metadata.source # None
              THEN encode_str(4, metadata.source[1]) ELSE <<>>)
        \o concat([i \in 1..Len(metadata.log_tags) |->
                     encode_message(6, pair_encoded_len(metadata.log_tags[i]),
                                    pair_encode_into_vec(metadata.log_tags[i]))])

\* calc_log_group_encoded_len, lines 182-194.
calc_log_group_encoded_len(metadata, logs) ==
    encoded_len_repeated(1, [i \in 1..Len(logs) |-> Log_encoded_len(logs[i])])
        + (IF metadata.topic # None
             THEN encoded_str_len(3, metadata.topic[1]) ELSE 0)
        + (IF metadata.source # None
             THEN encoded_str_len(4, metadata.source[1]) ELSE 0)
        + encoded_len_repeated(6, [i \in 1..Len(metadata.log_tags) |->
                                     pair_encoded_len(metadata.log_tags[i])])

\* Every encode_message call of encode_log_group: the length prefix it writes
\* and the number of bytes the message then writes.
nested_messages(metadata, logs) ==
    { [prefix |-> Log_encoded_len(logs[i]),
       written |-> Len(Log_encode_into_vec(logs[i]))] : i \in 1..Len(logs) }
    \cup
    UNION { { [prefix |-> pair_encoded_len(logs[i].contents[j]),
               written |-> Len(pair_encode_into_vec(logs[i].contents[j]))] :
                 j \in 1..Len(logs[i].contents) } : i \in 1..Len(logs) }
    \cup
    { [prefix |-> pair_encoded_len(metadata.log_tags[i]),
       written |-> Len(pair_encode_into_vec(metadata.log_tags[i]))] :
         i \in 1..Len(metadata.log_tags) }

-----------------------------------------------------------------------------
(* src/proto.rs: the older LogGroup { logs, reserved, topic, source,        *)
(* log_tags }, Log { time, contents, time_ns } and KeyValue { key, value }. *)
(* Its encode_* and encoded_* helpers (lines 143-228) are those above.      *)

\* impl Message for KeyValue, src/proto.rs 46-57.
KeyValue_encode(kv) == encode_str(1, kv.key) \o encode_str(2, kv.value)
KeyValue_encoded_len(kv) == encoded_str_len(1, kv.key) + encoded_str_len(2, kv.value)

\* impl Message for Log, src/proto.rs 59-81.
LegacyLog_encode(log) ==
    encode_varint_field(1, log.time)
        \o concat([i \in 1..Len(log.contents) |->
                     encode_message(2, KeyValue_encoded_len(log.contents[i]),
                                    KeyValue_encode(log.contents[i]))])
        \o (IF log.time_ns # None THEN encode_fixed32(4, log.time_ns[1]) ELSE <<>>)

LegacyLog_encoded_len(log) ==
    encoded_varint_field_len(1, log.time)
        + encoded_len_repeated(2, [i \in 1..Len(log.contents) |->
                                     KeyValue_encoded_len(log.contents[i])])
        + (IF log.time_ns # None THEN encoded_fixed32_len(4) ELSE 0)

\* impl Message for LogGroup, src/proto.rs 83-121.
LogGroup_encode(g) ==
    concat([i \in 1..Len(g.logs) |->
              encode_message(1, LegacyLog_encoded_len(g.logs[i]),
                             LegacyLog_encode(g.logs[i]))])
        \o (IF g.reserved # None THEN encode_str(2, g.reserved[1]) ELSE <<>>)
        \o (IF g.topic # None THEN encode_str(3, g.topic[1]) ELSE <<>>)
        \o (IF g.source # None THEN encode_str(4, g.source[1]) ELSE <<>>)
        \o concat([i \in 1..Len(g.log_tags) |->
                     encode_message(6, KeyValue_encoded_len(g.log_tags[i]),
                                    KeyValue_encode(g.log_tags[i]))])

LogGroup_encoded_len(g) ==
    encoded_len_repeated(1, [i \in 1..Len(g.logs) |->
                               LegacyLog_encoded_len(g.logs[i])])
        + (IF g.reserved # None THEN encoded_str_len(2, g.reserved[1]) ELSE 0)
        + (IF g.topic # None THEN encoded_str_len(3, g.topic[1]) ELSE 0)
        + (IF g.source # None THEN encoded_str_len(4, g.source[1]) ELSE 0)
        + encoded_len_repeated(6, [i \in 1..Len(g.log_tags) |->
                                     KeyValue_encoded_len(g.log_tags[i])])

\* The mutant of estimate_size: the tags are not counted.
estimate_size_logs_only(logs, tags) ==
    encoded_len_repeated(1, [i \in 1..Len(logs) |-> LegacyLog_encoded_len(logs[i])])

\* LogGroup::estimate_size, src/proto.rs 123-127.
estimate_size(logs, tags) ==
    encoded_len_repeated(1, [i \in 1..Len(logs) |-> LegacyLog_encoded_len(logs[i])])
        + encoded_len_repeated(6, [i \in 1..Len(tags) |-> KeyValue_encoded_len(tags[i])])

\* The older LogGroup holding the same data as (metadata, logs, reserved).
ToLegacyKeyValue(kv) == [key |-> kv[1], value |-> kv[2]]
ToLegacyLog(log) ==
    [time |-> log.timestamp, time_ns |-> log.subsec_nanosecond,
     contents |-> [i \in 1..Len(log.contents) |-> ToLegacyKeyValue(log.contents[i])]]
ToLegacyLogGroup(metadata, logs, reserved) ==
    [logs |-> [i \in 1..Len(logs) |-> ToLegacyLog(logs[i])],
     reserved |-> reserved, topic |-> metadata.topic, source |-> metadata.source,
     log_tags |-> [i \in 1..Len(metadata.log_tags) |->
                     ToLegacyKeyValue(metadata.log_tags[i])]]

-----------------------------------------------------------------------------
(* The encoder's inputs (SpecEnc).                                         *)

\* Key/value pairs: a short one and one whose value needs a two-byte length.
PairShort == <<Str(1, 97), Str(0, 0)>>
PairLong == <<Str(3, 107), Str(130, 118)>>

\* Sequences over S of length at most n.
SeqsUpTo(S, n) == UNION { [1..k -> S] : k \in 0..n }

EncLogs ==
    { [timestamp |-> ts, subsec_nanosecond |-> shape[1], contents |-> shape[2]] :
        ts \in {0, 300, 2147483647},
        shape \in { <<None, <<>>>>,
                    <<None, <<PairShort, PairLong>>>>,
                    <<Some(999999999), <<PairShort, PairLong>>>> } }

EncMetadata ==
    { LogGroupMetadata(topic, source, tags) :
        topic \in {None, Some(Str(130, 116))},
        source \in {None, Some(Str(0, 0))},
        tags \in {<<>>, <<PairShort>>, <<PairShort, PairLong>>} }

EncInputs ==
    { [metadata |-> m, logs |-> ls, reserved |-> r] :
        m \in EncMetadata, ls \in SeqsUpTo(EncLogs, MaxEncLogs),
        r \in {None, Some(Str(2, 114))} }

EncOff == [metadata |-> LogGroupMetadata(None, None, <<>>), logs |-> <<>>,
           reserved |-> None]

InitEncOff ==
    /\ enc_in = EncOff
    /\ enc_pc = {"off"}
    /\ enc_out = <<>>
    /\ enc_len = 0
    /\ enc_nested = {}
    /\ enc_legacy = [out |-> <<>>, len |-> 0, est |-> 0]

InitEnc ==
    /\ enc_in \in EncInputs
    /\ enc_pc = {}
    /\ enc_out = <<>>
    /\ enc_len = 0
    /\ enc_nested = {}
    /\ enc_legacy = [out |-> <<>>, len |-> 0, est |-> 0]

\* encode_log_group is run on the input.
do_encode_log_group ==
    /\ "off" \notin enc_pc
    /\ "encoded" \notin enc_pc
    /\ enc_pc' = enc_pc \cup {"encoded"}
    /\ enc_out' = encode_log_group(enc_in.metadata, enc_in.logs)
    /\ enc_nested' = nested_messages(enc_in.metadata, enc_in.logs)
    /\ UNCHANGED <<enc_in, enc_len, enc_legacy>>

\* calc_log_group_encoded_len is run on the input.
do_calc_log_group_encoded_len ==
    /\ "off" \notin enc_pc
    /\ "measured" \notin enc_pc
    /\ enc_pc' = enc_pc \cup {"measured"}
    /\ enc_len' = calc_log_group_encoded_len(enc_in.metadata, enc_in.logs)
    /\ UNCHANGED <<enc_in, enc_out, enc_nested, enc_legacy>>

\* The older LogGroup of the same data is encoded and measured, and its logs and
\* tags are estimated as SlsDispatcher::run does before it builds the group.
do_legacy_encode ==
    /\ "off" \notin enc_pc
    /\ "legacy" \notin enc_pc
    /\ enc_pc' = enc_pc \cup {"legacy"}
    /\ LET g == ToLegacyLogGroup(enc_in.metadata, enc_in.logs, enc_in.reserved)
       IN  enc_legacy' = [out |-> LogGroup_encode(g), len |-> LogGroup_encoded_len(g),
                          est |-> estimate_size(g.logs, g.log_tags)]
    /\ UNCHANGED <<enc_in, enc_out, enc_len, enc_nested>>

\* C8: the bytes encode_log_group wrote are as many as calc_log_group_encoded_len
\* returned for the same group; every length prefix written by encode_message is
\* the number of bytes the nested message wrote; the older LogGroup's encode and
\* encoded_len agree likewise.
C8_EncodedLenIsBytesWritten ==
    /\ {"encoded", "measured"} \subseteq enc_pc => Len(enc_out) = enc_len
    /\ \A m \in enc_nested : m.prefix = m.written
    /\ "legacy" \in enc_pc => Len(enc_legacy.out) = enc_legacy.len

\* C8 witness: a group with topic, source, two tags and two logs, one with and
\* one without subsecond nanos, was encoded and measured; a nested message needed
\* a two-byte length prefix.
C8_Witness ==
    /\ {"encoded", "measured", "legacy"} \subseteq enc_pc
    /\ enc_in.metadata.topic # None
    /\ enc_in.metadata.source # None
    /\ Len(enc_in.metadata.log_tags) = 2
    /\ Len(enc_in.logs) = 2
    /\ enc_in.logs[1].subsec_nanosecond = None
    /\ enc_in.logs[2].subsec_nanosecond # None
    /\ enc_in.logs[2].contents # <<>>
    /\ \E m \in enc_nested : m.prefix >= 128
    /\ Len(enc_out) = enc_len
    /\ enc_len > 128

\* C35: for logs and tags in a LogGroup with reserved, topic and source unset,
\* as SlsDispatcher::run builds it, estimate_size is the group's encoded_len and
\* the number of bytes its encode writes.
C35_EstimateIsEncodedLen ==
    (/\ "legacy" \in enc_pc
     /\ enc_in.reserved = None
     /\ enc_in.metadata.topic = None
     /\ enc_in.metadata.source = None)
      => /\ enc_legacy.est = enc_legacy.len
         /\ enc_legacy.est = Len(enc_legacy.out)

\* C35 witness: two logs, one with contents and nanos, and two tags were
\* estimated and encoded in a group with nothing else set.
C35_Witness ==
    /\ "legacy" \in enc_pc
    /\ enc_in.reserved = None
    /\ enc_in.metadata.topic = None
    /\ enc_in.metadata.source = None
    /\ Len(enc_in.logs) = 2
    /\ enc_in.logs[1].contents = <<>>
    /\ enc_in.logs[2].contents # <<>>
    /\ enc_in.logs[2].subsec_nanosecond # None
    /\ Len(enc_in.metadata.log_tags) = 2
    /\ enc_legacy.est > 128
    /\ Len(enc_legacy.out) = enc_legacy.est

-----------------------------------------------------------------------------
(* src/layer.rs: SlsDispatcher::run (SpecDisp).                            *)

\* MAX_SINGLE_SIZE, line 119.
MAX_SINGLE_SIZE == 10 * 1024 * 1024

KeyValue(key, value) == [key |-> key, value |-> value]

\* The tag vectors records arrive with: none, a short one, and one that alone
\* is larger than MAX_SINGLE_SIZE.
DispTags ==
    { <<>>,
      <<KeyValue(Str(5, 108), Str(4, 105))>>,
      <<KeyValue(Str(3, 98), Str(11 * 1024 * 1024, 120))>> }

\* The lengths of a record's message: short, more than half of
\* MAX_SINGLE_SIZE, more than MAX_SINGLE_SIZE.
DispValueLens == {10, 6 * 1024 * 1024, 11 * 1024 * 1024}

\* The id-th record received, its message vlen bytes long.
DispLog(id, vlen) ==
    [time |-> id, time_ns |-> Some(0),
     contents |-> <<KeyValue(Str(7, 109), Str(vlen, 120))>>]

\* The LogGroup literal run() builds for put_log, lines 134-140.
LogGroup(logs, tags) ==
    [logs |-> logs, reserved |-> None, topic |-> None, source |-> None,
     log_tags |-> tags]

\* HashMap::insert and HashMap::remove.
insert(map, k, v) == [x \in (DOMAIN map) \cup {k} |-> IF x = k THEN v ELSE map[x]]
remove(map, k) == [x \in (DOMAIN map) \ {k} |-> map[x]]

\* The mutant of pop_rest: nothing is popped.
pop_rest_keep(logs) == logs

\* What Vec::pop leaves in the vector, line 155.
pop_rest(logs) == SubSeq(logs, 1, Len(logs) - 1)

InitDispOff ==
    /\ buffer = <<>>
    /\ disp_pc = "off"
    /\ disp_puts = <<>>
    /\ disp_dropped = {}
    /\ disp_received = 0
    /\ disp_last = None

\* SlsDispatcher as built: an empty buffer, run() about to enter its loop.
InitDisp ==
    /\ buffer = <<>>
    /\ disp_pc = "run"
    /\ disp_puts = <<>>
    /\ disp_dropped = {}
    /\ disp_received = 0
    /\ disp_last = None

\* The shutdown arm, lines 125-127.
disp_shutdown ==
    /\ disp_pc = "run"
    /\ disp_pc' = "drain"
    /\ UNCHANGED <<buffer, disp_puts, disp_dropped, disp_received, disp_last>>

\* The timer arm, lines 128-141: nothing on an empty buffer, else the group
\* with the most logs is removed and passed to put_log.
disp_timer ==
    /\ disp_pc = "run"
    /\ IF DOMAIN buffer = {}
         THEN UNCHANGED <<buffer, disp_puts>>
         ELSE \E tags \in DOMAIN buffer :
                /\ \A other \in DOMAIN buffer : Len(buffer[other]) <= Len(buffer[tags])
                /\ buffer' = remove(buffer, tags)
                /\ disp_puts' = Append(disp_puts, LogGroup(buffer[tags], tags))
    /\ UNCHANGED <<disp_pc, disp_dropped, disp_received, disp_last>>

\* The receiver arm when every sender is gone, lines 143-145.
disp_recv_none ==
    /\ disp_pc = "run"
    /\ disp_pc' = "drain"
    /\ UNCHANGED <<buffer, disp_puts, disp_dropped, disp_received, disp_last>>

\* The receiver arm on a record, lines 142-172.
disp_recv(tags, log) ==
    /\ disp_pc = "run"
    /\ disp_received < MaxDispReceived
    /\ disp_received' = disp_received + 1
    /\ disp_last' = Some([tags |-> tags, log |-> log])
    /\ LET logs0 == IF tags \in DOMAIN buffer THEN buffer[tags] ELSE <<>>
           size_before == estimate_size(logs0, tags)
           pushed == Append(logs0, log)
           size_after == estimate_size(pushed, tags)
           logs == pop_rest(pushed)
           last_log == pushed[Len(pushed)]
           new_logs == <<last_log>>
           size == estimate_size(new_logs, tags)
       IN  IF ~(size_before <= MAX_SINGLE_SIZE)
             THEN /\ disp_pc' = "panicked"
                  /\ buffer' = insert(buffer, tags, logs0)
                  /\ UNCHANGED <<disp_puts, disp_dropped>>
             ELSE /\ disp_pc' = disp_pc
                  /\ IF size_after > MAX_SINGLE_SIZE
                       THEN /\ disp_puts' = Append(disp_puts, LogGroup(logs, tags))
                            /\ IF size > MAX_SINGLE_SIZE
                                 THEN /\ buffer' = remove(buffer, tags)
                                      /\ disp_dropped' = disp_dropped \cup {last_log}
                                 ELSE /\ buffer' = insert(remove(buffer, tags), tags, new_logs)
                                      /\ UNCHANGED disp_dropped
                       ELSE /\ buffer' = insert(buffer, tags, pushed)
                            /\ UNCHANGED <<disp_puts, disp_dropped>>

\* One turn of the final loop over buffer.drain(), lines 176-187.
disp_drain_put ==
    /\ disp_pc = "drain"
    /\ DOMAIN buffer # {}
    /\ \E tags \in DOMAIN buffer :
         /\ buffer' = remove(buffer, tags)
         /\ disp_puts' = Append(disp_puts, LogGroup(buffer[tags], tags))
    /\ UNCHANGED <<disp_pc, disp_dropped, disp_received, disp_last>>

\* run() returns, line 188.
disp_return ==
    /\ disp_pc = "drain"
    /\ DOMAIN buffer = {}
    /\ disp_pc' = "done"
    /\ UNCHANGED <<buffer, disp_puts, disp_dropped, disp_received, disp_last>>

\* The events one thread emits.
MaxEmitted == 3

\* mpsc::channel(1024), src/src/lib.rs 98 and builder/log_comp.rs 91.
CHANNEL_CAPACITY == 1024

\* SlsTracingBuilder::layer, lib.rs 97-123: nothing spawned, an empty channel.
InitSlsLayer ==
    /\ spawned = {}
    /\ receiver = <<>>
    /\ emitted = 0

\* SlsLayer::on_event, layer.rs 53-91 (Logger::log, log_comp.rs 39-73, is the
\* same with no tags): the record is built, and a task is spawned that will
\* send it; the handler returns without waiting for the task.
SlsLayer_on_event(tags, vlen) ==
    /\ disp_pc # "off"
    /\ emitted < MaxEmitted
    /\ emitted' = emitted + 1
    /\ spawned' = spawned \cup { [tags |-> tags, log |-> DispLog(emitted + 1, vlen)] }
    /\ UNCHANGED <<receiver, dvars>>

\* A spawned task runs, layer.rs 88-90: sender.send((tags, log)).await. The
\* runtime picks which of the spawned tasks runs next; the result of send is
\* ignored, so the record is lost once run() has returned and dropped the
\* receiver.
sender_send(task) ==
    /\ task \in spawned
    /\ spawned' = spawned \ {task}
    /\ IF disp_pc \in {"done", "panicked"}
         THEN UNCHANGED receiver
         ELSE /\ Len(receiver) < CHANNEL_CAPACITY
              /\ receiver' = Append(receiver, task)
    /\ UNCHANGED <<emitted, dvars>>

\* The receiver arm of run(), layer.rs 142-172, on the oldest record of the
\* channel.
receiver_recv ==
    /\ receiver # <<>>
    /\ disp_recv(Head(receiver).tags, Head(receiver).log)
    /\ receiver' = Tail(receiver)
    /\ UNCHANGED <<spawned, emitted>>

\* The logs of every group passed to put_log so far.
DispPutLogs == UNION { Range(disp_puts[i].logs) : i \in 1..Len(disp_puts) }

\* The logs held in the buffer.
DispHeldLogs == UNION { Range(buffer[t]) : t \in DOMAIN buffer }

\* C4: when taking a record makes its tag set's estimated size exceed
\* MAX_SINGLE_SIZE, that step passes exactly the records held before it for that
\* tag set to put_log, as one group; the new record then is the only record of
\* the tag set's group, or, too large alone, is dropped: it is held nowhere and
\* no group passed to put_log ever carries it.
C4_OverflowDispatchesPrior ==
    /\ [][ (disp_received' = disp_received + 1 /\ disp_pc' = "run")
             => LET tags == disp_last'[1].tags
                    log == disp_last'[1].log
                    prior == IF tags \in DOMAIN buffer THEN buffer[tags] ELSE <<>>
                IN  estimate_size(Append(prior, log), tags) > MAX_SINGLE_SIZE
                      => /\ disp_puts' = Append(disp_puts, LogGroup(prior, tags))
                         /\ \A t \in (DOMAIN buffer) \ {tags} :
                              t \in DOMAIN buffer' /\ buffer'[t] = buffer[t]
                         /\ IF estimate_size(<<log>>, tags) <= MAX_SINGLE_SIZE
                              THEN /\ tags \in DOMAIN buffer'
                                   /\ buffer'[tags] = <<log>>
                                   /\ disp_dropped' = disp_dropped
                              ELSE /\ tags \notin DOMAIN buffer'
                                   /\ disp_dropped' = disp_dropped \cup {log}
         ]_vars
    /\ [](disp_dropped \cap (DispPutLogs \cup DispHeldLogs) = {})

\* C4 witness: both overflow cases have happened: one record was held back as
\* the seed of a fresh group after the prior records went out, another was
\* dropped.
C4_Witness ==
    /\ disp_pc = "run"
    /\ disp_dropped # {}
    /\ \E i \in 1..Len(disp_puts) : disp_puts[i].logs # <<>>
    /\ disp_last # None
    /\ LET tags == disp_last[1].tags
       IN  /\ tags \in DOMAIN buffer
           /\ buffer[tags] = <<disp_last[1].log>>
           /\ \E i \in 1..Len(disp_puts) :
                /\ disp_puts[i].log_tags = tags
                /\ disp_puts[i].logs # <<>>
                /\ disp_puts[i].logs[1].time = disp_last[1].log.time - 1

\* C5: after any sequence of received records, timer firings and shutdown,
\* every group passed to put_log encodes to at most MAX_SINGLE_SIZE bytes, and
\* the loop goes on after a record too large for any group: run() is in its
\* loop, in its final drain, or has returned.
C5_CapAndProgress ==
    /\ \A i \in 1..Len(disp_puts) :
         LogGroup_encoded_len(disp_puts[i]) <= MAX_SINGLE_SIZE
    /\ disp_pc \in {"run", "drain", "done"}

\* C32 (as claimed): the assertion of line 149 holds whatever was received:
\* run() never panics on it.
C32_SizeBeforeWithinCap == disp_pc # "panicked"

\* C33 (as claimed): no group passed to put_log has an empty record sequence.
C33_NoEmptyGroupDispatched ==
    \A i \in 1..Len(disp_puts) : disp_puts[i].logs # <<>>

\* C34 (as claimed): a turn of the timer arm on a non-empty buffer passes every
\* buffered group to put_log and leaves the buffer empty.
C34_TimerDispatchesEveryGroup ==
    [][ (/\ disp_pc = "run" /\ disp_pc' = "run"
         /\ disp_received' = disp_received
         /\ DOMAIN buffer # {})
          => /\ DOMAIN buffer' = {}
             /\ Len(disp_puts') = Len(disp_puts) + Cardinality(DOMAIN buffer)
             /\ \A tags \in DOMAIN buffer :
                  \E i \in (Len(disp_puts) + 1)..Len(disp_puts') :
                      disp_puts'[i] = LogGroup(buffer[tags], tags) ]_vars

-----------------------------------------------------------------------------
(* client/headers.rs, client/signer.rs: the request signer. A byte string  *)
(* is a sequence of tokens, each a literal or the output of a digest, and   *)
(* stands for their concatenation. Digests and codecs are kept symbolic: a  *)
(* record of what was digested or compressed.                               *)

\* client/headers.rs.
AUTHORIZATION == "authorization"
CONTENT_LENGTH == "content-length"
CONTENT_TYPE == "content-type"
DATE == "date"
API_VERSION == "0.6.0"
LOG_API_VERSION == "x-log-apiversion"
LOG_SIGNATURE_METHOD == "x-log-signaturemethod"
LOG_BODY_RAW_SIZE == "x-log-bodyrawsize"
LOG_COMPRESS_TYPE == "x-log-compresstype"
CONTENT_MD5 == "content-md5"
DEFAULT_CONTENT_TYPE == "application/x-protobuf"
SIGNATURE_METHOD == "hmac-sha1"

\* The bytes of the x-log header names.
HeaderNameBytes ==
    "x-log-apiversion" :> <<120, 45, 108, 111, 103, 45, 97, 112, 105, 118, 101, 114, 115, 105, 111, 110>>
    @@ "x-log-bodyrawsize" :> <<120, 45, 108, 111, 103, 45, 98, 111, 100, 121, 114, 97, 119, 115, 105, 122, 101>>
    @@ "x-log-compresstype" :> <<120, 45, 108, 111, 103, 45, 99, 111, 109, 112, 114, 101, 115, 115, 116, 121, 112, 101>>
    @@ "x-log-signaturemethod" :> <<120, 45, 108, 111, 103, 45, 115, 105, 103, 110, 97, 116, 117, 114, 101, 109, 101, 116, 104, 111, 100>>

\* The compression features of the build; lib.rs 67-68 refuses lz4 with deflate.
Codecs == {"none", "lz4", "deflate"}

\* A literal byte string.
Lit(s) == [lit |-> s]

\* A buffer of bytes as the codec of the build leaves it: lz4_flex::compress,
\* compress_to_vec_zlib, or the encoded bytes themselves.
compress(codec, buf) == [codec |-> codec, raw |-> buf]

\* Vec::len().to_string() of a buffer: a number for plain bytes; what a codec
\* makes of them is not computed, its length stays symbolic.
buf_len_to_string(buf) ==
    IF buf.codec = "none" THEN Lit(ToString(Len(buf.raw))) ELSE [len_of |-> buf]

\* The mutant of content_md5_of: the digest of the bytes before compression.
content_md5_of_raw(encoded) ==
    [hex_upper_md5 |-> [codec |-> "none", raw |-> encoded.raw]]

\* hex::encode_upper(md5::compute(encoded)), signer.rs 29.
content_md5_of(encoded) == [hex_upper_md5 |-> encoded]

\* Hmac::<Sha1>::new_from_slice, Mac::update, Mac::finalize and
\* BASE64_STANDARD.encode.
hmac_new(secret) == [key |-> secret, absorbed |-> <<>>]
mac_update(mac, tokens) == [mac EXCEPT !.absorbed = @ \o tokens]
base64_finalize(mac) == [base64_hmac_sha1 |-> mac]

\* The mutant of compress_type_lines: no codec line is written.
compress_type_lines_none(codec) == <<Lit("\n")>>

\* signer.rs 59-64: what follows the raw size in the string to sign.
compress_type_lines(codec) ==
    IF codec = "none"
      THEN <<Lit("\n")>>
      ELSE <<Lit("\n"), Lit(LOG_COMPRESS_TYPE), Lit(":"), Lit(codec), Lit("\n")>>

\* signer.rs 37-77: the arguments of mac.update, in order.
sign_string(codec, content_md5, date, raw_length, canonicalized_resource) ==
    <<Lit("POST"), Lit("\n"), content_md5, Lit("\n"),
      Lit(DEFAULT_CONTENT_TYPE), Lit("\n"),
      date, Lit("\n"),
      Lit(LOG_API_VERSION), Lit(":"), Lit(API_VERSION), Lit("\n"),
      Lit(LOG_BODY_RAW_SIZE), Lit(":"), raw_length>>
    \o compress_type_lines(codec)
    \o <<Lit(LOG_SIGNATURE_METHOD), Lit(":"), Lit(SIGNATURE_METHOD), Lit("\n"),
         canonicalized_resource>>

\* The mutant of sign_leaves_hmac: the Signer's own MAC absorbs the updates.
sign_updates_hmac(own, used) == used

\* signer.rs 23: sign works on a clone; the Signer's own MAC is what it was.
sign_leaves_hmac(own, used) == own

\* Signer::sign, signer.rs 22-87, under the build's codec and with now the
\* formatted Timestamp::now(): the Signature and the Signer's MAC after the call.
sign(codec, self, now, encoded_len, encoded) ==
    LET date == Lit(now)
        raw_length == Lit(ToString(encoded_len))
        content_md5 == content_md5_of(encoded)
        mac == mac_update(self.hmac,
                          sign_string(codec, content_md5, date, raw_length,
                                      Lit(self.canonicalized_resource)))
        authorization == <<Lit("LOG "), Lit(self.access_key), Lit(":"),
                           base64_finalize(mac)>>
    IN  [signature |-> [date |-> date, raw_length |-> raw_length,
                        content_md5 |-> content_md5,
                        authorization |-> authorization],
         hmac |-> sign_leaves_hmac(self.hmac, mac)]

-----------------------------------------------------------------------------
(* client/mod.rs and src/client.rs: one delivery call (SpecClient).        *)

\* The HTTP backends of client/imp.
Imps == {"reqwest", "nyquest"}

\* What the network does to one call: building the HTTP client fails, the
\* transport fails, or a response with a status arrives whose body can or
\* cannot be read.
NetOutcomes ==
    { [init |-> "err", send |-> "err", status |-> 0, text |-> "err"],
      [init |-> "ok", send |-> "err", status |-> 0, text |-> "err"] }
    \cup { [init |-> "ok", send |-> "ok", status |-> st, text |-> "ok"] :
             st \in {200, 204, 302, 404, 500} }
    \cup { [init |-> "ok", send |-> "ok", status |-> st, text |-> "err"] :
             st \in {200, 500} }

\* StatusCode::is_success: 200..299.
is_success(status) == status >= 200 /\ status <= 299

\* reqwest's Response::error_for_status: an error for 400..599.
error_for_status(status) == status >= 400 /\ status <= 599

\* The formatted times of the calls.
Dates == {"Tue, 03 Nov 2026 07:00:00 GMT", "Tue, 03 Nov 2026 07:00:01 GMT"}

\* The log groups delivered: an empty one and one with topic, a tag and a log.
ClientGroups ==
    { [metadata |-> LogGroupMetadata(None, None, <<>>), logs |-> <<>>],
      [metadata |-> MetaB, logs |-> <<LogNew(300, Some(5))>>] }

\* SlsClientBuilder::build: the Signer of the client.
SignerNew ==
    [hmac |-> hmac_new("secret"), access_key |-> "access-key",
     canonicalized_resource |-> "/logstores/store/shards/lb"]

\* The headers put_log_inner sets on the request, client/mod.rs 100-111.
request_headers(codec, signature, buf) ==
    { <<AUTHORIZATION, signature.authorization>>,
      <<CONTENT_LENGTH, buf_len_to_string(buf)>>,
      <<CONTENT_MD5, signature.content_md5>>,
      <<DATE, signature.date>>,
      <<LOG_BODY_RAW_SIZE, signature.raw_length>> }
    \cup (IF codec = "none" THEN {} ELSE { <<LOG_COMPRESS_TYPE, Lit(codec)>> })

\* The mutant of default_headers: the HTTP client is built with no default
\* headers.
default_headers_none(imp) == {}

\* HttpClient::new, imp/reqwest.rs 30-50 and imp/nyquest.rs 31-42: the headers
\* the client adds to every request (nyquest's content-type line is commented
\* out; its body() names the content type instead, imp/nyquest.rs 66-73).
default_headers(imp) ==
    { <<LOG_API_VERSION, Lit(API_VERSION)>>,
      <<LOG_SIGNATURE_METHOD, Lit(SIGNATURE_METHOD)>> }
    \cup (IF imp = "reqwest" THEN { <<CONTENT_TYPE, Lit(DEFAULT_CONTENT_TYPE)>> } ELSE {})

\* The headers of the request as the backend sends it: those set on the
\* request, the content type of a nyquest body, and the client's default
\* headers for the names the request does not set.
sent_headers(imp, headers) ==
    LET own == headers
                 \cup (IF imp = "nyquest"
                       THEN { <<CONTENT_TYPE, Lit(DEFAULT_CONTENT_TYPE)>> } ELSE {})
    IN  own \cup { d \in default_headers(imp) : \A h \in own : h[1] # d[1] }

\* RequestBuilder::send of the backend, imp/reqwest.rs 83-87 and
\* imp/nyquest.rs 75-78: an error, or a response with its status.
send(imp, net) ==
    IF net.send = "err" THEN "Imp"
    ELSE IF imp = "reqwest" /\ error_for_status(net.status) THEN "Imp"
    ELSE "Response"

\* client/mod.rs 114: the response is looked at only under enable_trace.
trace_only(enable_trace) == enable_trace

\* SlsClient::put_log_inner, client/mod.rs 85-127: the result, the requests
\* sent, the sign call made and whether the HTTP client exists afterwards.
put_log_inner(cfg, ready, sgn, metadata, logs, now, net) ==
    IF ~ready /\ net.init = "err"
      THEN [result |-> "Imp", requests |-> <<>>, signed |-> <<>>, ready |-> FALSE]
      ELSE
        LET raw_length == calc_log_group_encoded_len(metadata, logs)
            buf == compress(cfg.codec, encode_log_group(metadata, logs))
            sg == sign(cfg.codec, sgn, now, raw_length, buf)
            request == [headers |-> sent_headers(cfg.imp,
                                        request_headers(cfg.codec, sg.signature, buf)),
                        body |-> buf]
            res == send(cfg.imp, net)
        IN  [result |->
                IF res = "Imp" THEN "Imp"
                ELSE IF trace_only(cfg.enable_trace)
                  THEN IF net.text = "err" THEN "Imp"
                       ELSE IF ~is_success(net.status) THEN "Http"
                       ELSE "Ok"
                  ELSE "Ok",
             requests |-> <<request>>,
             signed |-> <<[args |-> [encoded_len |-> raw_length, encoded |-> buf,
                                     now |-> now],
                           signature |-> sg.signature, hmac |-> sg.hmac]>>,
             ready |-> TRUE]

\* SlsClient::put_log of src/client.rs 99-181, on the older LogGroup: it signs
\* inline on a clone of its MAC and uses reqwest without error_for_status.
legacy_put_log_inner(cfg, sgn, log, now, net) ==
    LET buf == compress(cfg.codec, LogGroup_encode(log))
        content_md5 == content_md5_of(buf)
        raw_length == Lit(ToString(LogGroup_encoded_len(log)))
        mac == mac_update(sgn.hmac,
                          sign_string(cfg.codec, content_md5, Lit(now), raw_length,
                                      Lit(sgn.canonicalized_resource)))
        authorization == <<Lit("LOG "), Lit(sgn.access_key), Lit(":"),
                           base64_finalize(mac)>>
        request ==
            [headers |->
                { <<AUTHORIZATION, authorization>>,
                  <<CONTENT_TYPE, Lit(DEFAULT_CONTENT_TYPE)>>,
                  <<CONTENT_LENGTH, buf_len_to_string(buf)>>,
                  <<CONTENT_MD5, content_md5>>,
                  <<DATE, Lit(now)>>,
                  <<LOG_API_VERSION, Lit(API_VERSION)>>,
                  <<LOG_BODY_RAW_SIZE, raw_length>>,
                  <<LOG_SIGNATURE_METHOD, Lit(SIGNATURE_METHOD)>> }
                \cup (IF cfg.codec = "none" THEN {}
                      ELSE { <<LOG_COMPRESS_TYPE, Lit(cfg.codec)>> }),
             body |-> buf]
    IN  [result |->
            IF net.send = "err" THEN "Imp"
            ELSE IF ~is_success(net.status) /\ net.text = "err" THEN "Imp"
            ELSE "Ok",
         requests |-> <<request>>]

InitClientOff ==
    /\ client_cfg = [imp |-> "off", enable_trace |-> FALSE, codec |-> "none"]
    /\ http_client = FALSE
    /\ signer = SignerNew
    /\ sign_history = {}
    /\ client_last = None
    /\ sign_repeated = FALSE

\* A client as SlsClientBuilder::build leaves it, under any build and either
\* setting of enable_trace; no call was made yet.
InitClient ==
    /\ client_cfg \in [imp : Imps, enable_trace : BOOLEAN, codec : Codecs]
    /\ http_client = FALSE
    /\ signer = SignerNew
    /\ sign_history = {}
    /\ client_last = None
    /\ sign_repeated = FALSE

\* SlsClient::try_put_log, client/mod.rs 59-83: the result of put_log_inner is
\* logged and returned as it is.
try_put_log(group, now, net) ==
    /\ client_cfg.imp \in Imps
    /\ \E r \in { put_log_inner(client_cfg, http_client, signer, group.metadata,
                                 group.logs, now, net) } :
           /\ http_client' = r.ready
           /\ signer' = IF r.signed = <<>> THEN signer
                        ELSE [signer EXCEPT !.hmac = r.signed[1].hmac]
           /\ sign_history' =
                sign_history \cup { [args |-> r.signed[i].args,
                                     signature |-> r.signed[i].signature] :
                                       i \in 1..Len(r.signed) }
           /\ sign_repeated' =
                (sign_repeated
                   \/ \E i \in 1..Len(r.signed) : \E h \in sign_history :
                        /\ h.args = r.signed[i].args
                        /\ Cardinality(sign_history) >= 2)
           /\ client_last' = Some([fn |-> "try_put_log", group |-> group,
                                   now |-> now, net |-> net,
                                   result |-> r.result, requests |-> r.requests])
    /\ UNCHANGED client_cfg

\* SlsClient::put_log of src/client.rs; that client is built with reqwest.
legacy_put_log(group, now, net) ==
    /\ client_cfg.imp = "reqwest"
    /\ net.init = "ok"
    /\ \E r \in { legacy_put_log_inner(client_cfg, signer,
                       ToLegacyLogGroup(group.metadata, group.logs, None), now, net) } :
           client_last' = Some([fn |-> "put_log", group |-> group, now |-> now,
                                net |-> net, result |-> r.result,
                                requests |-> r.requests])
    /\ UNCHANGED <<client_cfg, http_client, signer, sign_history, sign_repeated>>

-----------------------------------------------------------------------------
(* client/builder.rs and SlsClient::new of src/client.rs: the construction *)
(* of a client (SpecBuilder).                                              *)

\* The values the caller configures: a key pair, a host, and names as the
\* service accepts them.
BuilderInputs ==
    [access_key |-> {"access-key"}, access_secret |-> {"secret"},
     endpoint |-> {"cn-hangzhou.log.aliyuncs.com"}, project |-> {"proj"},
     logstore |-> {"store", "logs"}, shard_key |-> {"0f"}]

\* SlsClientBuilder::default, builder.rs 34-49.
SlsClientBuilder_default ==
    [access_key |-> None, hmac |-> None, endpoint |-> None, project |-> None,
     logstore |-> None, shard_key |-> None, enable_trace |-> TRUE]

\* What a call that consumes the builder returns.
BuilderResult(fn, err, field, client) ==
    [fn |-> fn, ok |-> client # None, err |-> err, field |-> field,
     client |-> client]

\* The mutant of canonicalized_resource_of: the shard key is left out.
canonicalized_resource_lb(logstore_name, key) ==
    "/logstores/" \o logstore_name \o "/shards/lb"

\* builder.rs 135-138 (and src/client.rs 61-68): the canonical resource.
canonicalized_resource_of(logstore_name, key) ==
    IF key = None
      THEN "/logstores/" \o logstore_name \o "/shards/lb"
      ELSE "/logstores/" \o logstore_name \o "/shards/route?key=" \o key[1]

\* builder.rs 140 (and src/client.rs 69-74): the URL of every request.
url_of(project_name, endpoint_name, canonicalized_resource) ==
    "https://" \o project_name \o "." \o endpoint_name \o canonicalized_resource

\* The mutant of missing_field: the endpoint is looked at first.
missing_field_endpoint_first(b) ==
    IF b.endpoint = None THEN Some("endpoint")
    ELSE IF b.access_key = None THEN Some("access_key")
    ELSE IF b.hmac = None THEN Some("access_secret")
    ELSE IF b.project = None THEN Some("project")
    ELSE IF b.logstore = None THEN Some("logstore")
    ELSE None

\* SlsClientBuilder::build, builder.rs 119-133: the chain of ok_or(..)?.
missing_field(b) ==
    IF b.access_key = None THEN Some("access_key")
    ELSE IF b.hmac = None THEN Some("access_secret")
    ELSE IF b.endpoint = None THEN Some("endpoint")
    ELSE IF b.project = None THEN Some("project")
    ELSE IF b.logstore = None THEN Some("logstore")
    ELSE None

\* SlsClientBuilder::build, builder.rs 118-158.
build_result(b) ==
    IF missing_field(b) # None
      THEN BuilderResult("build", "Missing", missing_field(b)[1], None)
      ELSE LET canonicalized_resource ==
                   canonicalized_resource_of(b.logstore[1], b.shard_key)
           IN  BuilderResult("build", "", "",
                   Some([url |-> url_of(b.project[1], b.endpoint[1],
                                        canonicalized_resource),
                         signer |-> [hmac |-> b.hmac[1],
                                     access_key |-> b.access_key[1],
                                     canonicalized_resource |->
                                         canonicalized_resource],
                         enable_trace |-> b.enable_trace]))

\* SlsClient::new of src/client.rs 52-91, for arguments args. The HTTP client is
\* taken to build.
legacy_new_result(args) ==
    LET canonicalized_resource ==
            canonicalized_resource_of(args.logstore[1], args.shard_key)
    IN  BuilderResult("new", "", "",
            Some([url |-> url_of(args.project[1], args.endpoint[1],
                                 canonicalized_resource),
                  signer |-> [hmac |-> args.hmac[1],
                              access_key |-> args.access_key[1],
                              canonicalized_resource |-> canonicalized_resource],
                  enable_trace |-> args.enable_trace]))

\* Url::path and Url::query of the request URL, joined: what follows the host
\* of an https URL, up to a fragment.
path_and_query(url) ==
    LET from == CHOOSE i \in 9..Len(url) :
                    /\ SubSeq(url, i, i) = "/"
                    /\ \A j \in 9..(i - 1) : SubSeq(url, j, j) # "/"
        marks == { i \in from..Len(url) : SubSeq(url, i, i) = "#" }
        to == IF marks = {} THEN Len(url)
              ELSE (CHOOSE i \in marks : \A j \in marks : i <= j) - 1
    IN  SubSeq(url, from, to)

InitBuilderOff ==
    /\ builder = [SlsClientBuilder_default EXCEPT !.enable_trace = FALSE]
    /\ built = Some(BuilderResult("off", "", "", None))
    /\ posted = None

\* SlsClient::builder(): a fresh builder.
InitBuilder ==
    /\ builder = SlsClientBuilder_default
    /\ built = None
    /\ posted = None

\* The setters access_key, endpoint, project, logstore and shard_key,
\* builder.rs 53-56 and 68-89: the field becomes Some(value).
with_field(field, value) ==
    /\ built = None
    /\ builder' = [builder EXCEPT ![field] = Some(value)]
    /\ UNCHANGED <<built, posted>>

\* SlsClientBuilder::access_secret, builder.rs 59-65: the MAC is keyed; when
\* new_from_slice refuses the key the call returns the Hmac error and the builder
\* is gone.
access_secret(secret, key_ok) ==
    /\ built = None
    /\ IF key_ok
         THEN /\ builder' = [builder EXCEPT !.hmac = Some(hmac_new(secret))]
              /\ UNCHANGED built
         ELSE /\ built' = Some(BuilderResult("access_secret", "Hmac", "", None))
              /\ UNCHANGED builder
    /\ UNCHANGED posted

\* SlsClientBuilder::build.
build ==
    /\ built = None
    /\ built' = Some(build_result(builder))
    /\ UNCHANGED <<builder, posted>>

\* SlsClient::new of src/client.rs with every argument given.
legacy_new ==
    /\ built = None
    /\ builder = SlsClientBuilder_default
    /\ \E secret \in BuilderInputs.access_secret :
       \E logstore_name \in BuilderInputs.logstore :
       \E key \in {None} \cup { Some(k) : k \in BuilderInputs.shard_key } :
         LET args == [access_key |-> Some("access-key"),
                      hmac |-> Some(hmac_new(secret)),
                      endpoint |-> Some("cn-hangzhou.log.aliyuncs.com"),
                      project |-> Some("proj"),
                      logstore |-> Some(logstore_name),
                      shard_key |-> key, enable_trace |-> FALSE]
         IN  /\ builder' = args
             /\ built' = Some(legacy_new_result(args))
    /\ UNCHANGED posted

\* A delivery call of the client that was built, answered with 200: the URL the
\* request is posted to (client/mod.rs 102, src/client.rs 157) and its headers.
built_put_log(now) ==
    /\ built # None
    /\ built[1].ok
    /\ LET client == built[1].client[1]
           cfg == [imp |-> "reqwest", enable_trace |-> client.enable_trace,
                   codec |-> "none"]
           net == [init |-> "ok", send |-> "ok", status |-> 200, text |-> "ok"]
           requests ==
               IF built[1].fn = "build"
                 THEN put_log_inner(cfg, FALSE, client.signer, MetaA, <<>>,
                                    now, net).requests
                 ELSE legacy_put_log_inner(cfg, client.signer,
                          ToLegacyLogGroup(MetaA, <<>>, None), now, net).requests
       IN  \E rs \in { requests } :
             posted' = Some([url |-> client.url, headers |-> rs[1].headers])
    /\ UNCHANGED <<builder, built>>

\* Ord for CompactString: the order of the bytes.
RECURSIVE str_lt(_, _)
str_lt(a, b) ==
    IF b = <<>> THEN FALSE
    ELSE IF a = <<>> THEN TRUE
    ELSE IF Head(a) # Head(b) THEN Head(a) < Head(b)
    ELSE str_lt(Tail(a), Tail(b))

\* Keys and values given to with(), with_tag(), remove() and remove_tag().
MapKeys == {Str(1, 97), Str(1, 98), Str(2, 97)}
MapValues == {Str(1, 118), Str(0, 0)}

\* LiteMap::insert: the store is kept sorted by key; a key that is there keeps
\* its place and takes the new value, a new key goes where the order puts it.
LiteMap_insert(store, key, value) ==
    IF \E i \in 1..Len(store) : store[i][1] = key
      THEN [i \in 1..Len(store) |->
              IF store[i][1] = key THEN <<key, value>> ELSE store[i]]
      ELSE LET below == Cardinality({ i \in 1..Len(store) :
                                       str_lt(as_bytes(store[i][1]), as_bytes(key)) })
           IN  SubSeq(store, 1, below) \o << <<key, value>> >>
                 \o SubSeq(store, below + 1, Len(store))

\* LiteMap::remove: the pair of the key is taken out, the others close up.
LiteMap_remove(store, key) ==
    SelectSeq(store, LAMBDA kv : kv[1] # key)

InitMapOff ==
    /\ map_contents = <<>>
    /\ map_order = <<>>
    /\ map_last = [fn |-> "off", key |-> Str(0, 0), before |-> <<>>]

\* Log::new / LogGroupMetadata::new: Map::new().
InitMap ==
    /\ map_contents = <<>>
    /\ map_order = <<>>
    /\ map_last = [fn |-> "new", key |-> Str(0, 0), before |-> <<>>]

\* Log::with and LogGroupMetadata::with_tag, proto.rs 102-105 and 138-146.
Log_with(key, value) ==
    /\ map_last.fn # "off"
    /\ map_contents' = LiteMap_insert(map_contents, key, value)
    /\ map_order' = IF \E i \in 1..Len(map_order) : map_order[i] = key
                      THEN map_order ELSE Append(map_order, key)
    /\ map_last' = [fn |-> "with", key |-> key, before |-> map_contents]

\* Log::remove and LogGroupMetadata::remove_tag, proto.rs 108-114 and 149-157.
Log_remove(key) ==
    /\ map_last.fn # "off"
    /\ map_contents' = LiteMap_remove(map_contents, key)
    /\ map_order' = SelectSeq(map_order, LAMBDA k : k # key)
    /\ map_last' = [fn |-> "remove", key |-> key, before |-> map_contents]

-----------------------------------------------------------------------------
(* Layer of crates/tracing-aliyun-sls: the records it reports at the points *)
(* of the span lifecycle (layer.rs 236-376, format.rs 16-41 and 154-187).  *)

\* The latest instant of the clock, and the most enters of the span.
MaxClock == 3

MaxEnters == 2

\* The most Arc allocations, and the most records the Reporter holds at once.
MaxArcs == 3

MaxReported == 1

\* The flags of RecordSpan, format.rs 21-41.
RecordSpan_NEW == 1
RecordSpan_ENTER == 2
RecordSpan_EXIT == 4
RecordSpan_CLOSE == 8
RecordSpan_NONE == 0

\* a | b on the u8 of the bitflags.
bits_or(a, b) ==
    LET bit(x, i) == (x \div (2 ^ i)) % 2
        or_bit(i) == IF bit(a, i) = 1 \/ bit(b, i) = 1 THEN 1 ELSE 0
    IN  or_bit(0) + 2 * or_bit(1) + 4 * or_bit(2) + 8 * or_bit(3)
        + 16 * or_bit(4) + 32 * or_bit(5) + 64 * or_bit(6) + 128 * or_bit(7)

\* RecordSpan::ACTIVE, format.rs 36-37.
RecordSpan_ACTIVE == bits_or(RecordSpan_NEW, RecordSpan_ENTER)

\* RecordSpan::FULL, format.rs 38-39.
RecordSpan_FULL ==
    bits_or(bits_or(RecordSpan_NEW, RecordSpan_ENTER),
            bits_or(RecordSpan_EXIT, RecordSpan_CLOSE))

\* The values given to with_span_events.
RecordSpanKinds ==
    {RecordSpan_NONE, RecordSpan_NEW, RecordSpan_ENTER, RecordSpan_EXIT,
     RecordSpan_CLOSE, RecordSpan_ACTIVE, RecordSpan_FULL}

\* bitflags contains(): every bit of flag is set in kind.
contains(kind, flag) == bits_or(kind, flag) = kind

\* RecordSpanConfig::default, format.rs 154-161.
RecordSpanConfig_default == [kind |-> RecordSpan_NONE, timing |-> FALSE]

\* RecordSpanConfig::trace_new .. trace_close, format.rs 176-187.
trace_new(record_span) == contains(record_span.kind, RecordSpan_NEW)

trace_enter(record_span) == contains(record_span.kind, RecordSpan_ENTER)

trace_exit(record_span) == contains(record_span.kind, RecordSpan_EXIT)

trace_close(record_span) == contains(record_span.kind, RecordSpan_CLOSE)

\* Timings::new, layer.rs 443-451.
Timings_new(now) == [idle |-> 0, busy |-> 0, last |-> now]

\* A record handed to the Reporter: its "span" field and the two time fields
\* (None when the record has no such field).
SpanLog(what, time_busy, time_idle) ==
    [span |-> what, time_busy |-> time_busy, time_idle |-> time_idle]

\* The span before on_new_span; busy and idle are the times it really was
\* entered and not entered, since the instant of the latest change.
NoSpan ==
    [st |-> "none", timings |-> None, busy |-> 0, idle |-> 0, since |-> 0,
     enters |-> 0]

\* create_metadata, layer.rs 397-422: the tags of a fresh LogGroupMetadata, as
\* a set of <<key, value>> with one value a key (the layer has no instance_id).
create_metadata ==
    { <<"level", "INFO">>, <<"module_path", "app">>, <<"file", "main.rs">>,
      <<"line", "1">> }

\* LogGroupMetadata::add_tag: the value of the key is set or replaced.
add_tag(tags, key, value) == { t \in tags : t[1] # key } \cup { <<key, value>> }

\* values.record(make_visitor(&mut metadata)): every field of values becomes a
\* tag.
record_tags(tags, values) ==
    { t \in tags : \A v \in values : v[1] # t[1] } \cup values

\* The place of a value whose last Arc was dropped.
Dropped == {}

\* The fields given to a span at its creation and to Span::record.
AttrSets == { {}, { <<"a", "1">> } }

RecordSets == { { <<"a", "2">> }, { <<"b", "1">> } }

\* Arc::strong_count: the span's extension and the records of the Reporter.
strong_count(a) ==
    (IF extensions = Some(a) THEN 1 ELSE 0)
    + Cardinality({ i \in DOMAIN reported : reported[i] = a })

\* The mutant of Arc_into_inner: the value is handed out whoever else holds it.
Arc_into_inner_shared(a) == Some(arcs[a])

\* Arc::into_inner: the value when this is the only reference, None otherwise.
Arc_into_inner(a) == IF strong_count(a) = 1 THEN Some(arcs[a]) ELSE None

\* get_or_create_metadata, layer.rs 383-395: the Arc of the span's extension,
\* or a fresh one that becomes the extension.
get_or_create_metadata ==
    IF extensions # None
      THEN [metadata |-> extensions[1], arcs |-> arcs, extensions |-> extensions]
      ELSE [metadata |-> Len(arcs) + 1, arcs |-> Append(arcs, create_metadata),
            extensions |-> Some(Len(arcs) + 1)]

\* The metadata side of a span handler that reports a record when does is true:
\* get_or_create_metadata, then Reporter::report(metadata, log).
report_span(does) ==
    IF does
      THEN /\ Len(reported) < MaxReported
           /\ \E g \in { get_or_create_metadata } :
                /\ Len(g.arcs) <= MaxArcs
                /\ arcs' = g.arcs
                /\ extensions' = g.extensions
                /\ reported' = Append(reported, g.metadata)
      ELSE UNCHANGED <<arcs, extensions, reported>>

InitMetadata ==
    /\ arcs = <<>>
    /\ extensions = None
    /\ reported = <<>>
    /\ recorded = {}
    /\ layer_last = [fn |-> "other", shared |-> FALSE]

InitLayerOff ==
    /\ layer = [installed |-> FALSE, on |-> FALSE, timer |-> TRUE,
                record_span |-> RecordSpanConfig_default]
    /\ span = NoSpan
    /\ clock = 0
    /\ layer_reports = <<>>
    /\ InitMetadata
    /\ InitSlsLayer

\* Layer::new, layer.rs 41-52: the timer is SystemTime.
InitLayer ==
    /\ layer = [installed |-> FALSE, on |-> TRUE, timer |-> TRUE,
                record_span |-> RecordSpanConfig_default]
    /\ span = NoSpan
    /\ clock = 0
    /\ layer_reports = <<>>
    /\ InitMetadata
    /\ InitSlsLayer

\* Layer::with_span_events, layer.rs 153-158, with RecordSpanConfig::with_kind.
with_span_events(kind) ==
    /\ layer.on /\ ~layer.installed
    /\ layer' = [layer EXCEPT !.record_span =
                    [kind |-> kind, timing |-> layer.record_span.timing]]
    /\ UNCHANGED <<span, clock, layer_reports, mtvars>>

\* Layer::without_time, layer.rs 111-122, with RecordSpanConfig::without_time.
without_time ==
    /\ layer.on /\ ~layer.installed
    /\ layer' = [layer EXCEPT !.timer = FALSE,
                              !.record_span =
                                 [kind |-> layer.record_span.kind, timing |-> FALSE]]
    /\ UNCHANGED <<span, clock, layer_reports, mtvars>>

\* The layer is given to the subscriber: its configuration is fixed from here.
install ==
    /\ layer.on /\ ~layer.installed
    /\ layer' = [layer EXCEPT !.installed = TRUE]
    /\ UNCHANGED <<span, clock, layer_reports, mtvars>>

\* Time passes.
tick ==
    /\ layer.installed
    /\ clock < MaxClock
    /\ clock' = clock + 1
    /\ UNCHANGED <<layer, span, layer_reports, mtvars>>

\* on_new_span, layer.rs 236-275.
on_new_span(attrs, parent) ==
    /\ layer.installed
    /\ span.st = "none"
    /\ Len(arcs) < MaxArcs
    /\ trace_new(layer.record_span) => Len(reported) < MaxReported
    /\ LET with_attrs == record_tags(create_metadata, attrs)
           with_id == add_tag(with_attrs, "span-id", "2")
           metadata == IF parent THEN add_tag(with_id, "parent-span-id", "1")
                                 ELSE with_id
           a == Len(arcs) + 1
       IN  /\ arcs' = Append(arcs, metadata)
           /\ reported' = IF trace_new(layer.record_span)
                             THEN Append(reported, a) ELSE reported
           /\ extensions' = Some(a)
           /\ recorded' = metadata \ create_metadata
    /\ layer_last' = [fn |-> "other", shared |-> FALSE]
    /\ span' = [st |-> "idle",
                timings |-> IF layer.record_span.timing
                               /\ trace_close(layer.record_span)
                               /\ span.timings = None
                              THEN Some(Timings_new(clock)) ELSE span.timings,
                busy |-> 0, idle |-> 0, since |-> clock, enters |-> 0]
    /\ layer_reports' = IF trace_new(layer.record_span)
                          THEN Append(layer_reports, SpanLog("new", None, None))
                          ELSE layer_reports
    /\ UNCHANGED <<layer, clock>>

\* on_enter, layer.rs 304-324.
on_enter ==
    /\ layer.installed
    /\ span.st = "idle"
    /\ span.enters < MaxEnters
    /\ LET acts == trace_enter(layer.record_span)
                     \/ (trace_close(layer.record_span) /\ layer.record_span.timing)
           t == span.timings
       IN  /\ span' = [span EXCEPT
                          !.st = "entered",
                          !.timings = IF acts /\ t # None
                                        THEN Some([t[1] EXCEPT
                                                     !.idle = t[1].idle + (clock - t[1].last),
                                                     !.last = clock])
                                        ELSE t,
                          !.idle = span.idle + (clock - span.since),
                          !.since = clock,
                          !.enters = span.enters + 1]
           /\ layer_reports' = IF acts /\ trace_enter(layer.record_span)
                                 THEN Append(layer_reports, SpanLog("enter", None, None))
                                 ELSE layer_reports
           /\ report_span(acts /\ trace_enter(layer.record_span))
    /\ layer_last' = [fn |-> "other", shared |-> FALSE]
    /\ UNCHANGED <<layer, clock, recorded>>

\* on_exit, layer.rs 326-346.
on_exit ==
    /\ layer.installed
    /\ span.st = "entered"
    /\ LET acts == trace_exit(layer.record_span)
                     \/ (trace_close(layer.record_span) /\ layer.record_span.timing)
           t == span.timings
       IN  /\ span' = [span EXCEPT
                          !.st = "idle",
                          !.timings = IF acts /\ t # None
                                        THEN Some([t[1] EXCEPT
                                                     !.busy = t[1].busy + (clock - t[1].last),
                                                     !.last = clock])
                                        ELSE t,
                          !.busy = span.busy + (clock - span.since),
                          !.since = clock]
           /\ layer_reports' = IF acts /\ trace_exit(layer.record_span)
                                 THEN Append(layer_reports, SpanLog("exit", None, None))
                                 ELSE layer_reports
           /\ report_span(acts /\ trace_exit(layer.record_span))
    /\ layer_last' = [fn |-> "other", shared |-> FALSE]
    /\ UNCHANGED <<layer, clock, recorded>>

\* on_close, layer.rs 348-376: the record gets "time.busy" from idle and
\* "time.idle" from busy when the span has a Timings extension.
on_close ==
    /\ layer.installed
    /\ span.st = "idle"
    /\ span' = [span EXCEPT !.st = "closed",
                            !.idle = span.idle + (clock - span.since),
                            !.since = clock]
    /\ layer_reports' =
         IF trace_close(layer.record_span)
           THEN IF span.timings # None
                  THEN LET busy == span.timings[1].busy
                           idle == span.timings[1].idle + (clock - span.timings[1].last)
                       IN  Append(layer_reports, SpanLog("close", Some(idle), Some(busy)))
                  ELSE Append(layer_reports, SpanLog("close", None, None))
           ELSE layer_reports
    /\ report_span(trace_close(layer.record_span))
    /\ layer_last' = [fn |-> "other", shared |-> FALSE]
    /\ UNCHANGED <<layer, clock, recorded>>

\* on_record, layer.rs 277-289: the extension is taken out of the span; its
\* value is kept when no one else holds the Arc (the value moves, so it stays
\* the same allocation here) and replaced by create_metadata otherwise; the
\* values are recorded on it and it becomes the extension again.
on_record(values) ==
    /\ layer.installed
    /\ span.st \in {"idle", "entered"}
    /\ LET taken == IF extensions # None THEN Arc_into_inner(extensions[1]) ELSE None
           sole == taken # None
           metadata == IF sole THEN taken[1] ELSE create_metadata
           a == IF sole THEN extensions[1] ELSE Len(arcs) + 1
       IN  /\ a <= MaxArcs
           /\ arcs' = IF sole
                         THEN [arcs EXCEPT ![a] = record_tags(metadata, values)]
                         ELSE Append(arcs, record_tags(metadata, values))
           /\ extensions' = Some(a)
           /\ layer_last' = [fn |-> "on_record", shared |-> ~sole]
    /\ recorded' = record_tags(recorded, values)
    /\ UNCHANGED <<layer, span, clock, layer_reports, reported>>

\* on_event, layer.rs 291-302: inside the entered span the record carries the
\* span's metadata, elsewhere a fresh one.
on_event ==
    /\ layer.installed
    /\ IF span.st = "entered"
         THEN report_span(TRUE)
         ELSE /\ Len(reported) < MaxReported
              /\ Len(arcs) < MaxArcs
              /\ arcs' = Append(arcs, create_metadata)
              /\ reported' = Append(reported, Len(arcs) + 1)
              /\ UNCHANGED extensions
    /\ layer_last' = [fn |-> "other", shared |-> FALSE]
    /\ UNCHANGED <<layer, span, clock, layer_reports, recorded>>

\* The Reporter has sent its oldest record and drops it with its Arc
\* (reporter.rs 206-230).
reporter_drop ==
    /\ reported # <<>>
    /\ reported' = Tail(reported)
    /\ arcs' = IF strong_count(Head(reported)) = 1
                 THEN [arcs EXCEPT ![Head(reported)] = Dropped] ELSE arcs
    /\ UNCHANGED <<layer, span, clock, layer_reports, extensions, recorded,
                   layer_last>>

InitExtraOff == InitBuilderOff /\ enc_varint = None /\ InitMapOff /\ InitLayerOff

-----------------------------------------------------------------------------
Init == InitReporter /\ InitEncOff /\ InitDispOff /\ put_results = <<>> /\ InitClientOff /\ InitExtraOff

Next ==
    \/ \E c \in Callers : (reporting_swap(c) /\ UNCHANGED <<evars, dvars, put_results, cvars, xvars>>)
    \/ \E c \in Callers : (reporting_take(c) /\ UNCHANGED <<evars, dvars, put_results, cvars, xvars>>)
    \/ \E p \in Producers : (report_check(p) /\ UNCHANGED <<evars, dvars, put_results, cvars, xvars>>)
    \/ \E p \in Producers : (report_send(p) /\ UNCHANGED <<evars, dvars, put_results, cvars, xvars>>)
    \/ (with_graceful_shutdown /\ UNCHANGED <<evars, dvars, put_results, cvars, xvars>>)
    \/ \E capacity \in PoolCapacities :
         (with_vec_pool_capacity(capacity) /\ UNCHANGED <<evars, dvars, put_results, cvars, xvars>>)
    \/ (start /\ UNCHANGED <<evars, dvars, put_results, cvars, xvars>>)
    \/ (shutdown_fut /\ UNCHANGED <<evars, dvars, put_results, cvars, xvars>>)
    \/ (consume /\ UNCHANGED <<evars, dvars, put_results, cvars, xvars>>)
    \/ (timer_fire /\ UNCHANGED <<evars, dvars, put_results, cvars, xvars>>)
    \/ (shutdown_recv /\ UNCHANGED <<evars, dvars, put_results, cvars, xvars>>)
    \/ (drain_put /\ UNCHANGED <<evars, dvars, put_results, cvars, xvars>>)
    \/ (drain_end /\ UNCHANGED <<evars, dvars, put_results, cvars, xvars>>)
    \/ (store_closing /\ UNCHANGED <<evars, dvars, put_results, cvars, xvars>>)
    \/ (work_fut_end /\ UNCHANGED <<evars, dvars, put_results, cvars, xvars>>)

Spec == Init /\ [][Next]_vars

-----------------------------------------------------------------------------
(* The session with the results of its deliveries (SpecDeliv): what          *)
(* try_put_log returns to put_log, client/mod.rs 54-83.                     *)

\* Result<(), SlsClientError>.
PutResults == {"Ok", "Err"}

\* The mutant of put_log_result: the error is handed on to the drain loop.
put_log_result_propagated(r) == r

\* SlsClient::put_log, client/mod.rs 54-56: try_put_log(..).await.ok() turns
\* either result into ().
put_log_result(r) == "Unit"

\* The put_log call of drain_put returns: try_put_log gave either result, and
\* the loop of drain() sees what put_log made of it.
put_log_returns ==
    \E r \in PutResults :
        put_results' = Append(put_results, [result |-> r, seen |-> put_log_result(r)])

InitDeliv == Init

NextDeliv ==
    \/ \E c \in Callers : (reporting_swap(c) /\ UNCHANGED <<evars, dvars, put_results, cvars, xvars>>)
    \/ \E c \in Callers : (reporting_take(c) /\ UNCHANGED <<evars, dvars, put_results, cvars, xvars>>)
    \/ \E p \in Producers :
         (/\ n_sub + Cardinality({ q \in Producers : prod[q] = "send" }) < MaxDelivReports
          /\ report_check(p)
          /\ UNCHANGED <<evars, dvars, put_results, cvars, xvars>>)
    \/ \E p \in Producers : (report_send(p) /\ UNCHANGED <<evars, dvars, put_results, cvars, xvars>>)
    \/ (with_graceful_shutdown /\ UNCHANGED <<evars, dvars, put_results, cvars, xvars>>)
    \/ \E capacity \in PoolCapacities :
         (with_vec_pool_capacity(capacity) /\ UNCHANGED <<evars, dvars, put_results, cvars, xvars>>)
    \/ (start /\ UNCHANGED <<evars, dvars, put_results, cvars, xvars>>)
    \/ (shutdown_fut /\ UNCHANGED <<evars, dvars, put_results, cvars, xvars>>)
    \/ (consume /\ UNCHANGED <<evars, dvars, put_results, cvars, xvars>>)
    \/ (timer_fire /\ UNCHANGED <<evars, dvars, put_results, cvars, xvars>>)
    \/ (shutdown_recv /\ UNCHANGED <<evars, dvars, put_results, cvars, xvars>>)
    \/ (drain_put /\ put_log_returns /\ UNCHANGED <<evars, dvars, cvars, xvars>>)
    \/ (drain_end /\ UNCHANGED <<evars, dvars, put_results, cvars, xvars>>)
    \/ (store_closing /\ UNCHANGED <<evars, dvars, put_results, cvars, xvars>>)
    \/ (work_fut_end /\ UNCHANGED <<evars, dvars, put_results, cvars, xvars>>)

SpecDeliv == InitDeliv /\ [][NextDeliv]_vars

\* The records of put_log call i.
PutLogs(i) == Range(puts[i].logs)

\* The records still in the channel, in the grouping map or waiting in the
\* running drain.
RecordsInSession ==
    { queue[k].log : k \in 1..Len(queue) }
        \cup UNION { Range(e.logs) : e \in log_group \cup drain_iter }

\* C13: the drain loop never sees an error from put_log; the records of a call
\* that failed are nowhere in the session afterwards (not in the channel, not in
\* the grouping map, not waiting in the drain) and in no other put_log call; no
\* record is in two put_log calls; and a drain with a failed call still passes
\* every batch it held to put_log: as many calls as batches visited, all of them
\* once the drain has ended.
C13_FailedBatchDroppedDrainGoesOn ==
    /\ Len(put_results) = Len(puts)
    /\ \A i \in 1..Len(put_results) : put_results[i].seen = "Unit"
    /\ \A i \in 1..Len(puts) :
           put_results[i].result = "Err" => PutLogs(i) \cap RecordsInSession = {}
    /\ \A i, j \in 1..Len(puts) : i # j => PutLogs(i) \cap PutLogs(j) = {}
    /\ drain_no >= 1 =>
           /\ Cardinality(PutsOf(drain_no)) = Cardinality(held \ drain_iter)
           /\ \A e \in held \ drain_iter : Cardinality(PutsCarrying(e)) = 1
           /\ wpc \notin {"drain", "final"} => drain_iter = {}

\* C13 witness: in a drain of two batches the first put_log call failed and the
\* second batch was passed to put_log all the same; the drain has ended.
C13_Witness ==
    /\ wpc = "select"
    /\ Cardinality(held) = 2
    /\ \E i \in PutsOf(drain_no) :
           /\ put_results[i].result = "Err"
           /\ i + 1 \in PutsOf(drain_no)

-----------------------------------------------------------------------------
(* The session under producers that never stop (SpecLive). The channel is  *)
(* unbounded and a vector grows until the next drain, so this              *)
(* specification keeps the first MaxLiveQueue records of the channel and   *)
(* the first MaxLiveHeld records of a vector and forgets the rest; the     *)
(* records carry no number and the calls of report are not counted.        *)

\* Reporter::report, lines 104-106, with producers that go on for ever.
report_send_live(p) ==
    /\ prod[p] = "send"
    /\ prod' = [prod EXCEPT ![p] = "idle"]
    /\ IF chan_closed \/ Len(queue) >= MaxLiveQueue
         THEN UNCHANGED queue
         ELSE \E a \in Arcs :
                queue' = Append(queue, [meta |-> a, log |-> LogNew(1, None)])
    /\ UNCHANGED <<is_reporting, is_closing, consumer, chan_closed, calls, wpc,
                   shutdown_signal, shutdown_rx, vec_pool_capacity, vec_pool,
                   log_group, drain_iter, timers, n_sub, accepted, puts, drain_no,
                   held, pool_at_drain, accepted_at_drain, late_none, sessions>>

\* Vec::push on a vector of which the first MaxLiveHeld records are kept.
push_live(v, log) == IF Len(v) < MaxLiveHeld THEN Append(v, log) ELSE v

\* LogConsumer::consume, lines 206-219, as the select arm of line 182.
consume_live ==
    /\ wpc = "select"
    /\ queue # <<>>
    /\ queue' = Tail(queue)
    /\ LET meta == Head(queue).meta
           log == Head(queue).log
       IN  IF Entry(log_group, meta) # {}
             THEN /\ log_group' =
                        { IF KeyEq(e.key, meta)
                            THEN [e EXCEPT !.logs = push_live(@, log)]
                            ELSE e : e \in log_group }
                  /\ UNCHANGED vec_pool
             ELSE IF vec_pool # <<>>
               THEN /\ log_group' = log_group \cup
                          { [key |-> meta,
                             logs |-> push_live(vec_pool[Len(vec_pool)], log)] }
                    /\ vec_pool' = SubSeq(vec_pool, 1, Len(vec_pool) - 1)
               ELSE /\ log_group' = log_group \cup
                          { [key |-> meta, logs |-> <<log>>] }
                    /\ UNCHANGED vec_pool
    /\ UNCHANGED <<is_reporting, is_closing, consumer, chan_closed, calls,
                   prod, wpc, shutdown_signal, shutdown_rx, vec_pool_capacity,
                   drain_iter, timers, n_sub, accepted, puts, drain_no, held,
                   pool_at_drain, accepted_at_drain, late_none, sessions>>

\* What the session leaves alone.
NotReporter == <<evars, dvars, put_results, cvars, xvars>>

\* One thread calls reporting() and one thread calls report().
LiveCallers == {"c1"}
LiveProducers == {"p1"}

InitLive == Init

NextLive ==
    \/ \E c \in LiveCallers : (reporting_swap(c) /\ UNCHANGED NotReporter)
    \/ \E c \in LiveCallers : (reporting_take(c) /\ UNCHANGED NotReporter)
    \/ \E p \in LiveProducers : (report_check(p) /\ UNCHANGED NotReporter)
    \/ \E p \in LiveProducers : (report_send_live(p) /\ UNCHANGED NotReporter)
    \/ (with_graceful_shutdown /\ UNCHANGED NotReporter)
    \/ \E capacity \in PoolCapacities :
         (with_vec_pool_capacity(capacity) /\ UNCHANGED NotReporter)
    \/ (start /\ UNCHANGED NotReporter)
    \/ (shutdown_fut /\ UNCHANGED NotReporter)
    \/ (consume_live /\ UNCHANGED NotReporter)
    \/ (timer_fire /\ UNCHANGED NotReporter)
    \/ (shutdown_recv /\ UNCHANGED NotReporter)
    \/ (drain_put /\ UNCHANGED NotReporter)
    \/ (drain_end /\ UNCHANGED NotReporter)
    \/ (store_closing /\ UNCHANGED NotReporter)
    \/ (work_fut_end /\ UNCHANGED NotReporter)

\* The executor goes on polling work_fut: a step of the drain, the store and
\* the return happen once they can (every put_log call returns). select! takes
\* one of its ready arms pseudo-randomly, so an arm that is ready again and again
\* is taken in the end: strong fairness for the shutdown arm. Nothing is assumed
\* of the producers, the timer or the consume arm.
FairLive ==
    /\ WF_vars(drain_put /\ UNCHANGED NotReporter)
    /\ WF_vars(drain_end /\ UNCHANGED NotReporter)
    /\ WF_vars(store_closing /\ UNCHANGED NotReporter)
    /\ WF_vars(work_fut_end /\ UNCHANGED NotReporter)
    /\ SF_vars(shutdown_recv /\ UNCHANGED NotReporter)

SpecLive == InitLive /\ [][NextLive]_vars /\ FairLive

GroupSize(meta, logs) == calc_log_group_encoded_len(meta, logs)

\* The smallest maximum per-group payload size under which every record the
\* producers send fits alone in a group.
SingleRecordCap ==
    LET sizes == { GroupSize(a.val, <<LogNew(k, None)>>) :
                     a \in Arcs, k \in 1..MaxReports }
    IN  CHOOSE m \in sizes : \A n \in sizes : n <= m

\* C21 (as claimed): with the maximum set to SingleRecordCap, no batch whose
\* encoded size is above the maximum is passed to put_log by the session.
C21_NoBatchAboveMaximum ==
    \A i \in 1..Len(puts) :
        GroupSize(puts[i].meta, puts[i].logs) <= SingleRecordCap

\* How often the record of an accepted item is in the intake channel, in the
\* batches of the grouping map, and in the put_log calls made so far.
TimesInChannel(item) ==
    Cardinality({ i \in 1..Len(queue) : queue[i] = item })

TimesInBatches(item) ==
    Cardinality({ ei \in UNION { { <<e, i>> : i \in 1..Len(e.logs) } : e \in log_group } :
                    ei[1].logs[ei[2]] = item.log })

TimesInPuts(item) ==
    Cardinality({ pi \in UNION { { <<k, i>> : i \in 1..Len(puts[k].logs) } : k \in 1..Len(puts) } :
                    puts[pi[1]].logs[pi[2]] = item.log })

\* The records passed to put_log so far.
RecordsPut == UNION { Range(puts[k].logs) : k \in 1..Len(puts) }

\* C29 (as claimed): at every select boundary each accepted record is in the
\* intake channel or in exactly one batch of the grouping map.
C29_InChannelOrOneBatch ==
    wpc = "select" =>
        \A n \in 1..Len(accepted) :
            TimesInChannel(accepted[n]) + TimesInBatches(accepted[n]) = 1

\* C29 (amended): at every select boundary each accepted record is in exactly
\* one place: the intake channel, one batch of the grouping map (the batch of its
\* key), or one put_log call of an earlier drain. A timer arm that wins over the
\* pending consume future leaves the channel as it was.
C29_RecordInOnePlace ==
    wpc = "select" =>
        \A n \in 1..Len(accepted) :
            /\ TimesInChannel(accepted[n]) + TimesInBatches(accepted[n])
                 + TimesInPuts(accepted[n]) = 1
            /\ \A e \in log_group :
                 accepted[n].log \in Range(e.logs) => KeyEq(e.key, accepted[n].meta)

\* C29 witness: the select is reached again after a timer drain that began
\* while records were waiting in the channel (more were accepted by then than
\* have been passed to put_log); one is still there, another is in a batch.
C29_Witness ==
    /\ wpc = "select"
    /\ drain_no >= 1
    /\ Cardinality(RecordsPut) >= 1
    /\ Cardinality(RecordsPut) < accepted_at_drain
    /\ queue # <<>>
    /\ log_group # {}

-----------------------------------------------------------------------------
(* The session with a timer that fires while it may, a shutdown arm that   *)
(* is taken once it is ready, and delivery calls that return (SpecFlush).  *)

InitFlush == Init

NextFlush ==
    \/ \E c \in Callers : (reporting_swap(c) /\ UNCHANGED NotReporter)
    \/ \E c \in Callers : (reporting_take(c) /\ UNCHANGED NotReporter)
    \/ \E p \in Producers : (report_check(p) /\ UNCHANGED NotReporter)
    \/ \E p \in Producers : (report_send(p) /\ UNCHANGED NotReporter)
    \/ (with_graceful_shutdown /\ UNCHANGED NotReporter)
    \/ \E capacity \in PoolCapacities :
         (with_vec_pool_capacity(capacity) /\ UNCHANGED NotReporter)
    \/ (start /\ UNCHANGED NotReporter)
    \/ (shutdown_fut /\ UNCHANGED NotReporter)
    \/ (consume /\ UNCHANGED NotReporter)
    \/ (timer_fire /\ UNCHANGED NotReporter)
    \/ (shutdown_recv /\ UNCHANGED NotReporter)
    \/ (drain_put /\ UNCHANGED NotReporter)
    \/ (drain_end /\ UNCHANGED NotReporter)
    \/ (store_closing /\ UNCHANGED NotReporter)
    \/ (work_fut_end /\ UNCHANGED NotReporter)

\* Every put_log call returns and the executor goes on polling work_fut: a turn
\* of the drain and its end happen once they can. select! takes one of its ready
\* arms pseudo-randomly, so the timer arm and the shutdown arm are taken when
\* they are ready again and again. Nothing is assumed of the producers, of the
\* consume arm, or of the shutdown signal ever firing.
FairFlush ==
    /\ WF_vars(drain_put /\ UNCHANGED NotReporter)
    /\ WF_vars(drain_end /\ UNCHANGED NotReporter)
    /\ SF_vars(timer_fire /\ UNCHANGED NotReporter)
    /\ SF_vars(shutdown_recv /\ UNCHANGED NotReporter)

SpecFlush == InitFlush /\ [][NextFlush]_vars /\ FairFlush

\* The record of the k-th report call is in a batch of the grouping map; is in a
\* batch the running drain has still to visit; how often it was passed to put_log.
InBatch(k) == \E e \in log_group : LogNew(k, None) \in Range(e.logs)

InDrain(k) == \E e \in drain_iter : LogNew(k, None) \in Range(e.logs)

TimesPut(k) == TimesInPuts([log |-> LogNew(k, None)])

\* A drain is still to come: the timer has firings left, or the shutdown signal
\* has fired.
DrainToCome == timers.fired < MaxTimerFirings \/ shutdown_signal = "fired"

\* C30: a record that consume has appended to a batch is never in two put_log
\* calls nor twice in one, and it is passed to put_log in the end: from the batch
\* when a drain is still to come, and from the running drain in any case.
C30_AppendedRecordPutOnce ==
    /\ [](\A k \in 1..MaxReports : TimesPut(k) <= 1)
    /\ \A k \in 1..MaxReports : (InBatch(k) /\ DrainToCome) ~> (TimesPut(k) = 1)
    /\ \A k \in 1..MaxReports : InDrain(k) ~> (TimesPut(k) = 1)

\* C30 witness: one record went out with a timer drain, another with the final
\* drain after the shutdown signal, each in one put_log call.
C30_Witness ==
    /\ wpc = "done"
    /\ \E k1, k2 \in 1..MaxReports :
         /\ k1 # k2
         /\ TimesPut(k1) = 1 /\ TimesPut(k2) = 1
         /\ \E i, j \in 1..Len(puts) :
              /\ puts[i].drain < puts[j].drain
              /\ LogNew(k1, None) \in Range(puts[i].logs)
              /\ LogNew(k2, None) \in Range(puts[j].logs)
              /\ timers.fired >= 1
              /\ shutdown_signal = "fired"

InitEncoder ==
    InitReporter /\ InitEnc /\ InitDispOff /\ put_results = <<>> /\ InitClientOff /\ InitExtraOff

NextEncoder ==
    \/ (do_encode_log_group /\ UNCHANGED <<rvars, dvars, put_results, cvars, xvars>>)
    \/ (do_calc_log_group_encoded_len /\ UNCHANGED <<rvars, dvars, put_results, cvars, xvars>>)
    \/ (do_legacy_encode /\ UNCHANGED <<rvars, dvars, put_results, cvars, xvars>>)

SpecEnc == InitEncoder /\ [][NextEncoder]_vars

InitDispatcher ==
    InitReporter /\ InitEncOff /\ InitDisp /\ put_results = <<>> /\ InitClientOff /\ InitExtraOff

NextDispatcher ==
    \/ (disp_shutdown /\ UNCHANGED <<rvars, evars, put_results, cvars, xvars>>)
    \/ (disp_timer /\ UNCHANGED <<rvars, evars, put_results, cvars, xvars>>)
    \/ (disp_recv_none /\ UNCHANGED <<rvars, evars, put_results, cvars, xvars>>)
    \/ \E tags \in DispTags : \E vlen \in DispValueLens :
         (disp_recv(tags, DispLog(disp_received + 1, vlen))
            /\ UNCHANGED <<rvars, evars, put_results, cvars, xvars>>)
    \/ (disp_drain_put /\ UNCHANGED <<rvars, evars, put_results, cvars, xvars>>)
    \/ (disp_return /\ UNCHANGED <<rvars, evars, put_results, cvars, xvars>>)

SpecDisp == InitDispatcher /\ [][NextDispatcher]_vars

InitClientSpec ==
    InitReporter /\ InitEncOff /\ InitDispOff /\ put_results = <<>> /\ InitClient /\ InitExtraOff

NextClient ==
    \/ \E group \in ClientGroups : \E now \in Dates : \E net \in NetOutcomes :
         (try_put_log(group, now, net)
            /\ UNCHANGED <<rvars, evars, dvars, put_results, xvars>>)
    \/ \E group \in ClientGroups : \E now \in Dates : \E net \in NetOutcomes :
         (legacy_put_log(group, now, net)
            /\ UNCHANGED <<rvars, evars, dvars, put_results, xvars>>)

SpecClient == InitClientSpec /\ [][NextClient]_vars

\* The value of header name of request req.
HeaderOf(req, name) == (CHOOSE h \in req.headers : h[1] = name)[2]

\* The bytes the MAC absorbed for the authorization header of request req.
SignedOf(req) == HeaderOf(req, AUTHORIZATION)[4].base64_hmac_sha1.absorbed

\* The bytes the latest call encoded, before any compression.
LastEncoded ==
    IF client_last[1].fn = "try_put_log"
      THEN encode_log_group(client_last[1].group.metadata, client_last[1].group.logs)
      ELSE LogGroup_encode(ToLegacyLogGroup(client_last[1].group.metadata,
                                            client_last[1].group.logs, None))

\* C14 (as claimed): a delivery call returns an error whenever building the HTTP
\* client or the transport failed or the response status is not a success, under
\* either backend and either setting of enable_trace; it sends at most one
\* request, and exactly one once the HTTP client exists.
C14_ErrUnlessSuccessStatus ==
    client_last # None =>
        LET c == client_last[1]
            no_client == c.fn = "try_put_log" /\ ~http_client
        IN  /\ (no_client \/ c.net.send = "err" \/ ~is_success(c.net.status))
                  => c.result # "Ok"
            /\ Len(c.requests) = (IF no_client THEN 0 ELSE 1)

\* C15: in every request the x-log-bodyrawsize header and the raw size in the
\* signed string are the length of the encoded bytes before compression; the body
\* is what the build's codec made of those bytes; the content-md5 header and the
\* digest in the signed string are the digest of the body, and content-length is
\* the length of the body. So the encoding precedes the compression, the
\* compression the digest and the signature, and those the request.
C15_RawSizeSignedDigestOfBody ==
    client_last # None =>
        \A k \in 1..Len(client_last[1].requests) :
            LET req == client_last[1].requests[k]
                raw == Lit(ToString(Len(LastEncoded)))
                signed == SignedOf(req)
            IN  /\ HeaderOf(req, LOG_BODY_RAW_SIZE) = raw
                /\ \E i \in 1..(Len(signed) - 2) :
                     /\ signed[i] = Lit(LOG_BODY_RAW_SIZE)
                     /\ signed[i + 1] = Lit(":")
                     /\ signed[i + 2] = raw
                /\ req.body = [codec |-> client_cfg.codec, raw |-> LastEncoded]
                /\ HeaderOf(req, CONTENT_MD5) = [hex_upper_md5 |-> req.body]
                /\ signed[3] = [hex_upper_md5 |-> req.body]
                /\ HeaderOf(req, CONTENT_LENGTH) =
                     (IF client_cfg.codec = "none"
                        THEN Lit(ToString(Len(LastEncoded)))
                        ELSE [len_of |-> req.body])

\* C15 witness: a compressing build sent a request for a group that is not empty.
C15_Witness ==
    /\ client_last # None
    /\ client_cfg.codec = "lz4"
    /\ client_last[1].fn = "try_put_log"
    /\ Len(client_last[1].requests) = 1
    /\ client_last[1].group.logs # <<>>
    /\ client_last[1].result = "Ok"

\* The lines of a byte string: its tokens between the newlines.
RECURSIVE SplitLines(_)
SplitLines(tokens) ==
    IF tokens = <<>> THEN << <<>> >>
    ELSE LET rest == SplitLines(Tail(tokens))
         IN  IF Head(tokens) = Lit("\n")
               THEN << <<>> >> \o rest
               ELSE << <<Head(tokens)>> \o rest[1] >> \o Tail(rest)

\* a is before b in the order of byte strings.
RECURSIVE LexLess(_, _)
LexLess(a, b) ==
    IF b = <<>> THEN FALSE
    ELSE IF a = <<>> THEN TRUE
    ELSE IF Head(a) # Head(b) THEN Head(a) < Head(b)
    ELSE LexLess(Tail(a), Tail(b))

\* The custom-header block of a signed string: the lines after VERB, digest,
\* content type and date, up to the canonicalized resource.
HeaderBlock(signed) ==
    LET lines == SplitLines(signed)
    IN  SubSeq(lines, 5, Len(lines) - 1)

\* C16: in every signed string the custom-header block is made of lines
\* name:value, the names are x-log headers in strictly ascending byte order, and
\* the x-log-compresstype line is there exactly when the build has a codec, with
\* the codec as its value.
C16_HeaderBlockSorted ==
    client_last # None =>
        \A k \in 1..Len(client_last[1].requests) :
            LET block == HeaderBlock(SignedOf(client_last[1].requests[k]))
                names == [i \in 1..Len(block) |-> block[i][1].lit]
            IN  /\ \A i \in 1..Len(block) :
                     /\ Len(block[i]) = 3
                     /\ block[i][2] = Lit(":")
                     /\ names[i] \in DOMAIN HeaderNameBytes
                /\ \A i \in 1..(Len(block) - 1) :
                     LexLess(HeaderNameBytes[names[i]], HeaderNameBytes[names[i + 1]])
                /\ names[1] = LOG_API_VERSION
                /\ names[2] = LOG_BODY_RAW_SIZE
                /\ names[Len(block)] = LOG_SIGNATURE_METHOD
                /\ (\E i \in 1..Len(block) : names[i] = LOG_COMPRESS_TYPE)
                     <=> client_cfg.codec # "none"
                /\ \A i \in 1..Len(block) :
                     names[i] = LOG_COMPRESS_TYPE => block[i][3] = Lit(client_cfg.codec)

\* C16 witness: a build with deflate signed a request; its block has four lines.
C16_Witness ==
    /\ client_last # None
    /\ client_cfg.codec = "deflate"
    /\ Len(client_last[1].requests) = 1
    /\ Len(HeaderBlock(SignedOf(client_last[1].requests[1]))) = 4

\* The name of a custom header of the service.
IsXLog(name) == Len(name) >= 6 /\ SubSeq(name, 1, 6) = "x-log-"

\* C36: in every request the x-log-* headers sent are the name:value lines of
\* the custom-header block of the signed string, no more and no fewer, each name
\* once, under either backend and every codec.
C36_SignedHeadersAreSent ==
    client_last # None =>
        \A k \in 1..Len(client_last[1].requests) :
            LET req == client_last[1].requests[k]
                block == HeaderBlock(SignedOf(req))
                canon == { <<block[i][1].lit, block[i][3]>> : i \in 1..Len(block) }
                sent == { h \in req.headers : IsXLog(h[1]) }
            IN  /\ \A c \in canon : IsXLog(c[1])
                /\ canon = sent
                /\ \A h1, h2 \in sent : h1[1] = h2[1] => h1 = h2

\* C36 witness: a nyquest build with lz4 sent a request with four x-log
\* headers.
C36_Witness ==
    /\ client_last # None
    /\ client_cfg.imp = "nyquest"
    /\ client_cfg.codec = "lz4"
    /\ client_last[1].fn = "try_put_log"
    /\ Len(client_last[1].requests) = 1
    /\ Cardinality({ h \in client_last[1].requests[1].headers : IsXLog(h[1]) }) = 4

\* C17: two sign calls with the same encoded length, payload and time gave the
\* same Signature, whatever was signed before or between them, and the Signer's
\* own MAC is what it was when the client was built.
C17_SignDeterministic ==
    /\ \A h1, h2 \in sign_history : h1.args = h2.args => h1.signature = h2.signature
    /\ signer = SignerNew

\* C17 witness: sign was called again with arguments it had signed before, after
\* it had signed other arguments too.
C17_Witness ==
    /\ sign_repeated
    /\ Cardinality(sign_history) >= 2

InitBuilderSpec ==
    /\ InitReporter /\ InitEncOff /\ InitDispOff /\ put_results = <<>>
    /\ InitClientOff /\ InitBuilder /\ enc_varint = None /\ InitMapOff /\ InitLayerOff

NotBuilder == <<rvars, evars, dvars, put_results, cvars, enc_varint, mvars, lvars>>

NextBuilder ==
    \/ \E field \in {"access_key", "endpoint", "project", "logstore", "shard_key"} :
         \E value \in BuilderInputs[field] :
           (with_field(field, value) /\ UNCHANGED NotBuilder)
    \/ \E secret \in BuilderInputs.access_secret : \E key_ok \in BOOLEAN :
         (access_secret(secret, key_ok) /\ UNCHANGED NotBuilder)
    \/ (build /\ UNCHANGED NotBuilder)
    \/ (legacy_new /\ UNCHANGED NotBuilder)
    \/ \E now \in Dates : (built_put_log(now) /\ UNCHANGED NotBuilder)

SpecBuilder == InitBuilderSpec /\ [][NextBuilder]_vars

\* The fields build() requires, in the order it looks at them, with the names
\* it reports.
RequiredFields ==
    << <<"access_key", "access_key">>, <<"hmac", "access_secret">>,
       <<"endpoint", "endpoint">>, <<"project", "project">>,
       <<"logstore", "logstore">> >>

\* C22: build() returns a client exactly when the five required fields are set;
\* otherwise it returns Missing with the name of the first unset field, in the
\* order access_key, access_secret, endpoint, project, logstore, and no client.
\* A secret that is refused ends in access_secret() with the Hmac error and
\* no client, and build() never reports that error.
C22_BuildOkIffAllSet ==
    built # None =>
        LET r == built[1]
            unset == { i \in 1..5 : builder[RequiredFields[i][1]] = None }
        IN  /\ r.fn = "build" =>
                  /\ r.ok <=> unset = {}
                  /\ r.ok <=> r.client # None
                  /\ ~r.ok =>
                       /\ r.err = "Missing"
                       /\ \E i \in unset :
                            /\ \A j \in unset : i <= j
                            /\ r.field = RequiredFields[i][2]
            /\ r.fn = "access_secret" => r.err = "Hmac" /\ r.client = None

\* C22 witness: build() failed on a builder with two unset fields, one of them
\* the last.
C22_Witness ==
    /\ built # None
    /\ built[1].fn = "build"
    /\ ~built[1].ok
    /\ built[1].field = "endpoint"
    /\ builder.logstore = None
    /\ builder.access_key # None

\* The canonical resource a request signed: the last bytes its MAC absorbed.
SignedResource(req) ==
    LET signed == SignedOf(req) IN signed[Len(signed)].lit

\* C23: the client holds the resource /logstores/{logstore}/shards/lb without
\* a shard key and /logstores/{logstore}/shards/route?key={shard_key} with one,
\* and in every request the path and query of the URL are the signed resource,
\* which is the resource of the client.
C23_UrlPathIsSignedResource ==
    /\ (built # None /\ built[1].ok) =>
          built[1].client[1].signer.canonicalized_resource =
              (IF builder.shard_key = None
                 THEN "/logstores/" \o builder.logstore[1] \o "/shards/lb"
                 ELSE "/logstores/" \o builder.logstore[1]
                        \o "/shards/route?key=" \o builder.shard_key[1])
    /\ posted # None =>
          /\ path_and_query(posted[1].url) = SignedResource(posted[1])
          /\ SignedResource(posted[1]) =
               built[1].client[1].signer.canonicalized_resource

\* C23 witness: a client built with a shard key has posted a request.
C23_Witness ==
    /\ posted # None
    /\ built[1].fn = "build"
    /\ builder.shard_key # None
    /\ path_and_query(posted[1].url) = "/logstores/logs/shards/route?key=0f"

-----------------------------------------------------------------------------
(* A reader of the wire format, to look at what the encoder wrote.         *)

\* The base-128 number that starts at bytes[pos], and the position after it.
RECURSIVE decode_varint(_, _)
decode_varint(bytes, pos) ==
    IF bytes[pos] < 128
      THEN [value |-> bytes[pos], next |-> pos + 1]
      ELSE LET rest == decode_varint(bytes, pos + 1)
           IN  [value |-> (bytes[pos] - 128) + 128 * rest.value,
                next |-> rest.next]

\* The fields of a message from bytes[pos] on: field number, wire type, the
\* number of a varint field, the payload of a length-delimited or 32-bit field.
RECURSIVE decode_fields(_, _)
decode_fields(bytes, pos) ==
    IF pos > Len(bytes) THEN <<>>
    ELSE LET k == decode_varint(bytes, pos)
             tag == k.value \div 8
             wire == k.value % 8
         IN  IF wire = 0
               THEN LET v == decode_varint(bytes, k.next)
                    IN  <<[tag |-> tag, wire |-> wire, value |-> v.value,
                           payload |-> <<>>]>> \o decode_fields(bytes, v.next)
             ELSE IF wire = 2
               THEN LET l == decode_varint(bytes, k.next)
                    IN  <<[tag |-> tag, wire |-> wire, value |-> 0,
                           payload |-> SubSeq(bytes, l.next, l.next + l.value - 1)]>>
                          \o decode_fields(bytes, l.next + l.value)
             ELSE <<[tag |-> tag, wire |-> wire, value |-> 0,
                     payload |-> SubSeq(bytes, k.next, k.next + 3)]>>
                    \o decode_fields(bytes, k.next + 4)

\* A length-delimited field number tag that holds the pair kv as key (1), value (2).
IsPairField(f, tag, kv) ==
    /\ f.tag = tag /\ f.wire = 2
    /\ LET inner == decode_fields(f.payload, 1)
       IN  /\ Len(inner) = 2
           /\ inner[1].tag = 1 /\ inner[1].wire = 2
           /\ inner[1].payload = as_bytes(kv[1])
           /\ inner[2].tag = 2 /\ inner[2].wire = 2
           /\ inner[2].payload = as_bytes(kv[2])

\* A length-delimited field 1 that holds the Log log: timestamp (1), the contents
\* (2) in their order, and the nanos (4, four bytes, low byte first) when set.
IsLogField(f, log) ==
    /\ f.tag = 1 /\ f.wire = 2
    /\ LET inner == decode_fields(f.payload, 1)
           n == Len(log.contents)
       IN  /\ Len(inner) = 1 + n + (IF log.subsec_nanosecond = None THEN 0 ELSE 1)
           /\ inner[1].tag = 1 /\ inner[1].wire = 0
           /\ inner[1].value = log.timestamp
           /\ \A j \in 1..n : IsPairField(inner[1 + j], 2, log.contents[j])
           /\ log.subsec_nanosecond # None =>
                LET g == inner[n + 2]
                IN  /\ g.tag = 4 /\ g.wire = 5
                    /\ g.payload[1] + 256 * g.payload[2] + 65536 * g.payload[3]
                         + 16777216 * g.payload[4] = log.subsec_nanosecond[1]

\* C24: what encode_log_group wrote reads back as the logs (field 1) in slice
\* order, then the topic (3) if set, then the source (4) if set, then the tags
\* (6) in their order, and nothing else; each log as its timestamp (1), its
\* contents (2) in their order and its nanos (4) only if set.
C24_FieldOrder ==
    "encoded" \in enc_pc =>
        LET top == decode_fields(enc_out, 1)
            m == enc_in.metadata
            n == Len(enc_in.logs)
            t == IF m.topic = None THEN 0 ELSE 1
            u == IF m.source = None THEN 0 ELSE 1
        IN  /\ Len(top) = n + t + u + Len(m.log_tags)
            /\ \A i \in 1..n : IsLogField(top[i], enc_in.logs[i])
            /\ m.topic # None =>
                 /\ top[n + 1].tag = 3 /\ top[n + 1].wire = 2
                 /\ top[n + 1].payload = as_bytes(m.topic[1])
            /\ m.source # None =>
                 /\ top[n + t + 1].tag = 4 /\ top[n + t + 1].wire = 2
                 /\ top[n + t + 1].payload = as_bytes(m.source[1])
            /\ \A i \in 1..Len(m.log_tags) :
                 IsPairField(top[n + t + u + i], 6, m.log_tags[i])

\* C24 witness: a group with two different logs, topic, source and two tags
\* was encoded.
C24_Witness ==
    /\ "encoded" \in enc_pc
    /\ Len(enc_in.logs) = 2
    /\ enc_in.logs[1] # enc_in.logs[2]
    /\ enc_in.logs[1].subsec_nanosecond # None
    /\ enc_in.metadata.topic # None
    /\ enc_in.metadata.source # None
    /\ Len(enc_in.metadata.log_tags) = 2
    /\ Len(decode_fields(enc_out, 1)) = 6

-----------------------------------------------------------------------------
(* encode_varint on its own (SpecVarint).                                  *)

\* The largest value of the run of small values given to encode_varint.
MaxVarintSmall == 300

\* Values given to encode_varint: the small ones and those around the lengths
\* of two to five bytes, up to the largest number the checker has.
VarintInputs ==
    (0..MaxVarintSmall)
      \cup {16383, 16384, 2097151, 2097152, 268435455, 268435456, 2147483647}

\* encode_varint is called on value.
do_encode_varint(value) ==
    enc_varint' = Some([value |-> value, out |-> encode_varint(value)])

InitVarint ==
    /\ InitReporter /\ InitEncOff /\ InitDispOff /\ put_results = <<>>
    /\ InitClientOff /\ InitBuilderOff /\ enc_varint = None /\ InitMapOff /\ InitLayerOff

NextVarint ==
    \E value \in VarintInputs :
        (do_encode_varint(value)
           /\ UNCHANGED <<rvars, evars, dvars, put_results, cvars, bvars, mvars, lvars>>)

SpecVarint == InitVarint /\ [][NextVarint]_vars

\* The number whose 7-bit groups, lowest first, are the low bits of the bytes
\* from position pos on.
RECURSIVE GroupsValue(_, _)
GroupsValue(bytes, pos) ==
    IF pos > Len(bytes) THEN 0
    ELSE (bytes[pos] % 128) + 128 * GroupsValue(bytes, pos + 1)

\* C25: encode_varint writes the 7-bit groups of the value lowest first, with the
\* high bit on every byte but the last and no group more than the value needs;
\* 0 gives [0x00], 127 [0x7F], 128 [0x80, 0x01] and 300 [0xAC, 0x02].
C25_VarintBase128 ==
    enc_varint # None =>
        LET value == enc_varint[1].value
            out == enc_varint[1].out
        IN  /\ Len(out) >= 1
            /\ \A i \in 1..Len(out) : out[i] \in 0..255
            /\ \A i \in 1..(Len(out) - 1) : out[i] >= 128
            /\ out[Len(out)] < 128
            /\ Len(out) > 1 => out[Len(out)] # 0
            /\ GroupsValue(out, 1) = value
            /\ value = 0 => out = <<0>>
            /\ value = 127 => out = <<127>>
            /\ value = 128 => out = <<128, 1>>
            /\ value = 300 => out = <<172, 2>>

\* C25 witness: 300 was encoded in two bytes.
C25_Witness ==
    /\ enc_varint # None
    /\ enc_varint[1].value = 300
    /\ Len(enc_varint[1].out) = 2

-----------------------------------------------------------------------------
(* Log.contents and LogGroupMetadata.log_tags (SpecMap).                   *)

InitMapSpec ==
    /\ InitReporter /\ InitEncOff /\ InitDispOff /\ put_results = <<>>
    /\ InitClientOff /\ InitBuilderOff /\ enc_varint = None /\ InitMap /\ InitLayerOff

NotMap == <<rvars, evars, dvars, put_results, cvars, bvars, enc_varint, lvars>>

NextMap ==
    \/ \E key \in MapKeys : \E value \in MapValues :
         (Log_with(key, value) /\ UNCHANGED NotMap)
    \/ \E key \in MapKeys : (Log_remove(key) /\ UNCHANGED NotMap)

SpecMap == InitMapSpec /\ [][NextMap]_vars

\* The keys of the container in the order iter() yields them.
MapIterKeys == [i \in 1..Len(map_contents) |-> map_contents[i][1]]

\* C26 (as claimed): the container has no duplicate keys, with() on a key that is
\* there changes its value and no position, and iter() yields the keys in the
\* order in which they were first inserted.
C26_InsertionOrderKept ==
    /\ \A i, j \in 1..Len(map_contents) :
         map_contents[i][1] = map_contents[j][1] => i = j
    /\ (map_last.fn = "with"
          /\ \E i \in 1..Len(map_last.before) : map_last.before[i][1] = map_last.key)
         => /\ Len(map_contents) = Len(map_last.before)
            /\ \A i \in 1..Len(map_contents) :
                 map_contents[i][1] = map_last.before[i][1]
    /\ MapIterKeys = map_order

-----------------------------------------------------------------------------
(* The Layer at the points of the span lifecycle (SpecLayer).              *)

InitLayerSpec ==
    /\ InitReporter /\ InitEncOff /\ InitDispOff /\ put_results = <<>>
    /\ InitClientOff /\ InitBuilderOff /\ enc_varint = None /\ InitMapOff
    /\ InitLayer

NotLayer == <<rvars, evars, dvars, put_results, cvars, bvars, enc_varint, mvars, slvars>>

NextLayer ==
    \/ \E kind \in RecordSpanKinds : (with_span_events(kind) /\ UNCHANGED NotLayer)
    \/ (without_time /\ UNCHANGED NotLayer)
    \/ (install /\ UNCHANGED NotLayer)
    \/ (tick /\ UNCHANGED NotLayer)
    \/ \E attrs \in AttrSets, parent \in BOOLEAN :
          (on_new_span(attrs, parent) /\ UNCHANGED NotLayer)
    \/ (on_enter /\ UNCHANGED NotLayer)
    \/ (on_exit /\ UNCHANGED NotLayer)
    \/ (on_close /\ UNCHANGED NotLayer)
    \/ \E values \in RecordSets : (on_record(values) /\ UNCHANGED NotLayer)
    \/ (on_event /\ UNCHANGED NotLayer)
    \/ (reporter_drop /\ UNCHANGED NotLayer)

SpecLayer == InitLayerSpec /\ [][NextLayer]_vars

\* C27 (as claimed): with RecordSpan::ACTIVE a record is reported at each enter
\* and at each exit of the span and none at its creation; with RecordSpan::NONE
\* no step of the lifecycle reports a record.
C27_ActiveReportsEnterAndExit ==
    [][ /\ (layer.record_span.kind = RecordSpan_ACTIVE
              /\ span.st = "idle" /\ span'.st = "entered")
            => layer_reports' = Append(layer_reports, SpanLog("enter", None, None))
        /\ (layer.record_span.kind = RecordSpan_ACTIVE
              /\ span.st = "entered" /\ span'.st = "idle")
            => layer_reports' = Append(layer_reports, SpanLog("exit", None, None))
        /\ (layer.record_span.kind = RecordSpan_ACTIVE
              /\ span.st = "none" /\ span'.st = "idle")
            => layer_reports' = layer_reports
        /\ layer.record_span.kind = RecordSpan_NONE
            => layer_reports' = layer_reports ]_vars

\* C28 (as claimed): with RecordSpan::CLOSE configured and the timer kept, the
\* record of the close carries in time.busy the time the span was entered and in
\* time.idle the time it existed and was not entered.
C28_CloseCarriesBusyAndIdle ==
    (/\ span.st = "closed"
     /\ trace_close(layer.record_span)
     /\ layer.timer)
      => /\ Len(layer_reports) >= 1
         /\ layer_reports[Len(layer_reports)] =
              SpanLog("close", Some(span.busy), Some(span.idle))

\* C37: a LogGroupMetadata behind an Arc changes only in a step where the
\* span's extension is its one holder (or it goes away with its last holder);
\* when the Reporter also holds it and the extension is replaced, the new
\* extension is a new allocation.
C37_SharedMetadataNotMutated ==
    [][ /\ \A a \in 1..Len(arcs) :
             arcs'[a] # arcs[a]
               => /\ strong_count(a) = 1
                  /\ \/ extensions = Some(a)
                     \/ /\ arcs'[a] = Dropped
                        /\ extensions' # Some(a)
                        /\ \A i \in DOMAIN reported' : reported'[i] # a
        /\ (/\ extensions # None
            /\ extensions' # extensions)
             => (/\ strong_count(extensions[1]) > 1
                 /\ extensions' = Some(Len(arcs) + 1)
                 /\ Len(arcs') = Len(arcs) + 1) ]_vars

\* C37 witness: on_record found the Arc shared with a record of the Reporter,
\* which still holds the old value, different from the span's new one.
C37_Witness ==
    /\ layer_last = [fn |-> "on_record", shared |-> TRUE]
    /\ reported # <<>>
    /\ extensions # None
    /\ reported[1] # extensions[1]
    /\ arcs[reported[1]] # arcs[extensions[1]]

\* C38 (as claimed): after on_record the span's metadata has every tag recorded
\* for the span so far: the attributes of on_new_span, span-id, parent-span-id
\* and the values of the on_record calls, the latest value of each field.
C38_OnRecordKeepsEarlierTags ==
    layer_last.fn = "on_record"
      => /\ extensions # None
         /\ recorded \subseteq arcs[extensions[1]]

-----------------------------------------------------------------------------
(* SlsLayer and its dispatcher: events of one thread, the spawned send     *)
(* tasks, the channel and run() (SpecSlsLayer).                            *)

NotSlsLayer ==
    <<rvars, evars, put_results, cvars, bvars, enc_varint, mvars, layer, span,
      clock, layer_reports, mtvars>>

InitSlsLayerSpec ==
    /\ InitReporter /\ InitEncOff /\ InitDisp /\ put_results = <<>>
    /\ InitClientOff /\ InitBuilderOff /\ enc_varint = None /\ InitMapOff
    /\ InitLayerOff

NextSlsLayer ==
    \/ \E tags \in DispTags : \E vlen \in DispValueLens :
         (SlsLayer_on_event(tags, vlen) /\ UNCHANGED NotSlsLayer)
    \/ \E task \in spawned : (sender_send(task) /\ UNCHANGED NotSlsLayer)
    \/ (receiver_recv /\ UNCHANGED NotSlsLayer)
    \/ (disp_timer /\ UNCHANGED <<NotSlsLayer, slvars>>)
    \/ (disp_shutdown /\ UNCHANGED <<NotSlsLayer, slvars>>)
    \/ (disp_drain_put /\ UNCHANGED <<NotSlsLayer, slvars>>)
    \/ (disp_return /\ UNCHANGED <<NotSlsLayer, slvars>>)

SpecSlsLayer == InitSlsLayerSpec /\ [][NextSlsLayer]_vars

\* The records of one tag vector in the order the dispatcher handles them:
\* those of the groups passed to put_log, then those of its batch.
HandlingOrder(tags) ==
    LET groups == SelectSeq(disp_puts, LAMBDA g : g.log_tags = tags)
    IN  concat([i \in 1..Len(groups) |-> groups[i].logs])
          \o (IF tags \in DOMAIN buffer THEN buffer[tags] ELSE <<>>)

\* C39 (as claimed): the records of one thread's events with the same tags are
\* in the dispatcher's batch, and in the groups it passes to put_log, in the
\* order the events were emitted (DispLog numbers them in its time field).
C39_EventsHandledInEmitOrder ==
    \A tags \in DispTags :
        LET order == HandlingOrder(tags)
        IN  \A i, j \in 1..Len(order) : i < j => order[i].time < order[j].time

====
